---- MODULE Spec2Model ----
(***************************************************************************)
(* rule-gen: the file-selection budgeter (src/budgeter.js), the response   *)
(* parser of src/gemini.js and the run of the command line (src/cli.js).   *)
(*                                                                         *)
(* JavaScript strings are modelled as sequences of one-character strings,  *)
(* so that every regular expression and every split of the source is       *)
(* computed character by character.                                        *)
(***************************************************************************)
EXTENDS Integers, Sequences, FiniteSets, TLC

VARIABLES
  \* budgeter.select
  files,        \* the argument `files` (discovery order)
  maxFiles,     \* the argument `maxFiles`
  sorted,       \* const sorted
  selected,     \* const selected
  tokenBudget,  \* let tokenBudget
  idx,          \* position of the for-of loop in `sorted` (next element to visit)
  turns,        \* history: what the loop did at each visited element
  bpc,          \* position in select: "idle" | "call" | "loop" | "done"
  returned,     \* history: the return values of the earlier invocations on `files`
  \* priority
  pfile,        \* the argument `file` of priority
  pclass,       \* its return value (-1 before the call)
  ppc,          \* "idle" | "call" | "done"
  \* gemini.generate, from the response text on
  text,         \* const text: the text of the model's response
  rules,        \* let rules
  produced,     \* history: rules as the parser returned them, before the cap
  mode,         \* history: the parser that returned them: "structured" | "text"
  xpc,          \* "idle" | "try" | "catch" | "cap" | "done" | "threw"
  \* a rule written by structuredRulesToOutput and read back by parseRules
  rtRule,       \* the rule object
  rtOut,        \* the records structuredRulesToOutput([rtRule]) returns
  rtBack,       \* the records parseRules returns for the content of the first
  rtpc,         \* "idle" | "write" | "read" | "done"
  \* main (src/cli.js) with the catch of bin/rule-gen.js
  argv,         \* the argument `argv`
  envKey,       \* process.env.GEMINI_API_KEY
  opts,         \* const opts
  mfiles,       \* const files
  mselected,    \* const selected
  mrules,       \* const rules
  mcalls,       \* history: the calls of scan, select, generate and write, in order
  stderr,       \* history: the kinds of the messages written by console.error
  exitCode,     \* the exit code of the process, -1 while it runs
  mpc,          \* position in main
  \* apiRequest within gemini.generate, with the catch of bin/rule-gen.js
  incoming,     \* the chunks of the response body still to arrive
  data,         \* let data
  requests,     \* history: the number of calls of request()
  promise,      \* the promise of apiRequest: [state, value]
  reqState,     \* the request: "none" | "open" | "ended" | "destroyed"
  errorPending, \* an 'error' event of the request is scheduled
  outcome,      \* how generate ended: "none" | "returned" | "rejected"
  surfaced,     \* what the catch of bin/rule-gen.js printed
  apc           \* position in generate: "idle" | "call" | "await" | "extract" | "thrown" | "exit"

bvars == <<files, maxFiles, sorted, selected, tokenBudget, idx, turns, bpc, returned>>
pvars == <<pfile, pclass, ppc>>
xvars == <<text, rules, produced, mode, xpc>>
rvars == <<rtRule, rtOut, rtBack, rtpc>>
mvars == <<argv, envKey, opts, mfiles, mselected, mrules, mcalls, stderr, exitCode, mpc>>
avars == <<incoming, data, requests, promise, reqState, errorPending, outcome, surfaced, apc>>
vars == <<bvars, pvars, xvars, rvars, mvars, avars>>

\* the variables an operation of one part leaves alone
notBudget == <<pvars, xvars, rvars, mvars, avars>>
notPriority == <<bvars, xvars, rvars, mvars, avars>>
notExtract == <<bvars, pvars, rvars, mvars, avars>>
notRoundTrip == <<bvars, pvars, xvars, mvars, avars>>
notMain == <<bvars, pvars, xvars, rvars, avars>>
notApi == <<bvars, pvars, xvars, rvars, mvars>>

-----------------------------------------------------------------------------
(* Strings *)

UpperChars == <<"A","B","C","D","E","F","G","H","I","J","K","L","M","N","O","P","Q","R","S","T","U","V","W","X","Y","Z">>
LowerChars == <<"a","b","c","d","e","f","g","h","i","j","k","l","m","n","o","p","q","r","s","t","u","v","w","x","y","z">>
DigitChars == <<"0","1","2","3","4","5","6","7","8","9">>

Range(s) == {s[i] : i \in DOMAIN s}

\* String.prototype.toLowerCase, one character
LowerChar(c) ==
  IF \E i \in DOMAIN UpperChars : UpperChars[i] = c
  THEN LowerChars[CHOOSE i \in DOMAIN UpperChars : UpperChars[i] = c]
  ELSE c

\* String.prototype.toLowerCase
toLowerCase(s) == [i \in DOMAIN s |-> LowerChar(s[i])]

\* the substring of s at position i (1-based) is t
StartsAt(s, i, t) ==
  /\ i >= 1
  /\ i + Len(t) - 1 <= Len(s)
  /\ \A k \in 1..Len(t) : s[i + k - 1] = t[k]

\* String.prototype.includes
includes(s, t) == \E i \in 1..(Len(s) + 1) : StartsAt(s, i, t)

\* s.slice(i) with a 1-based i
From(s, i) == SubSeq(s, i, Len(s))

-----------------------------------------------------------------------------
(* src/budgeter.js *)

MAX_CONTEXT_TOKENS == 900000
PROMPT_RESERVE == 10000
BUDGET == MAX_CONTEXT_TOKENS - PROMPT_RESERVE

\* rel.split('/').pop(): the part of rel after its last '/'
LastSegment(rel) ==
  LET slashes == {i \in DOMAIN rel : rel[i] = "/"}
  IN IF slashes = {} THEN rel
     ELSE From(rel, (CHOOSE i \in slashes : \A j \in slashes : j <= i) + 1)

\* the language of /^(index|main|app|server)\.[jt]sx?$/
EntryPointNames ==
  {base \o <<".">> \o ext :
     base \in {<<"i","n","d","e","x">>, <<"m","a","i","n">>, <<"a","p","p">>, <<"s","e","r","v","e","r">>},
     ext \in {<<"j","s">>, <<"j","s","x">>, <<"t","s">>, <<"t","s","x">>}}

isEntryPointName(name) == name \in EntryPointNames

\* a plausible slip: tests are ranked before the default class
priorityTestsBeforeGeneric(file) ==
  LET rel == toLowerCase(file.relativePath)
      name == LastSegment(rel)
  IN IF file.isConfig THEN 0
     ELSE IF isEntryPointName(name) THEN 1
     ELSE IF includes(rel, <<"s","r","c","/">>) /\ isEntryPointName(name) THEN 1
     ELSE IF includes(rel, <<"s","c","h","e","m","a">>) \/ includes(rel, <<"m","o","d","e","l">>) \/ includes(rel, <<"p","r","i","s","m","a">>) THEN 2
     ELSE IF includes(rel, <<"r","o","u","t","e">>) \/ includes(rel, <<"a","p","i","/">>) \/ includes(rel, <<"c","o","n","t","r","o","l","l","e","r">>) THEN 3
     ELSE IF includes(rel, <<"m","i","d","d","l","e","w","a","r","e">>) \/ includes(rel, <<"h","o","o","k">>) \/ includes(rel, <<"u","t","i","l">>) THEN 4
     ELSE IF includes(rel, <<"c","o","m","p","o","n","e","n","t">>) THEN 5
     ELSE IF includes(rel, <<"t","e","s","t">>) \/ includes(rel, <<"s","p","e","c">>) \/ includes(rel, <<"_","_","t","e","s","t","s","_","_">>) THEN 6
     ELSE 7

priority(file) ==
  LET rel == toLowerCase(file.relativePath)
      name == LastSegment(rel)
  IN IF file.isConfig THEN 0
     ELSE IF isEntryPointName(name) THEN 1
     ELSE IF includes(rel, <<"s","r","c","/">>) /\ isEntryPointName(name) THEN 1
     ELSE IF includes(rel, <<"s","c","h","e","m","a">>) \/ includes(rel, <<"m","o","d","e","l">>) \/ includes(rel, <<"p","r","i","s","m","a">>) THEN 2
     ELSE IF includes(rel, <<"r","o","u","t","e">>) \/ includes(rel, <<"a","p","i","/">>) \/ includes(rel, <<"c","o","n","t","r","o","l","l","e","r">>) THEN 3
     ELSE IF includes(rel, <<"m","i","d","d","l","e","w","a","r","e">>) \/ includes(rel, <<"h","o","o","k">>) \/ includes(rel, <<"u","t","i","l">>) THEN 4
     ELSE IF includes(rel, <<"c","o","m","p","o","n","e","n","t">>) THEN 5
     ELSE IF includes(rel, <<"t","e","s","t">>) \/ includes(rel, <<"s","p","e","c">>) \/ includes(rel, <<"_","_","t","e","s","t","s","_","_">>) THEN 7
     ELSE 6

\* a plausible slip: smaller files first within a priority
compareSmallerFirst(a, b) ==
  LET pa == priority(a)
      pb == priority(b)
  IN IF pa # pb THEN pa - pb ELSE a.size - b.size

\* the comparator handed to sort
compare(a, b) ==
  LET pa == priority(a)
      pb == priority(b)
  IN IF pa # pb THEN pa - pb ELSE b.size - a.size

\* x put into the sorted sequence s behind every element that does not
\* compare greater than it
RECURSIVE InsertSorted(_, _)
InsertSorted(x, s) ==
  IF s = <<>> THEN <<x>>
  ELSE IF compare(Head(s), x) <= 0 THEN <<Head(s)>> \o InsertSorted(x, Tail(s))
  ELSE <<x>> \o s

\* [...files].sort(compare): Array.prototype.sort is stable, so the result is
\* the one stable arrangement of files by compare
RECURSIVE SortFiles(_)
SortFiles(fs) ==
  IF fs = <<>> THEN <<>>
  ELSE InsertSorted(fs[Len(fs)], SortFiles(SubSeq(fs, 1, Len(fs) - 1)))

-----------------------------------------------------------------------------
(* src/scanner.js: what the walker records about a file *)

\* const SOURCE_EXTS
SOURCE_EXTS ==
  {<<".","j","s">>,
   <<".","j","s","x">>,
   <<".","t","s">>,
   <<".","t","s","x">>,
   <<".","m","j","s">>,
   <<".","c","j","s">>,
   <<".","p","y">>,
   <<".","p","y","w">>,
   <<".","g","o">>,
   <<".","r","s">>,
   <<".","r","b">>,
   <<".","j","a","v","a">>,
   <<".","k","t">>,
   <<".","k","t","s">>,
   <<".","c","s">>,
   <<".","p","h","p">>,
   <<".","s","w","i","f","t">>,
   <<".","c">>,
   <<".","h">>,
   <<".","c","p","p">>,
   <<".","h","p","p">>,
   <<".","c","c">>,
   <<".","v","u","e">>,
   <<".","s","v","e","l","t","e">>,
   <<".","a","s","t","r","o">>,
   <<".","c","s","s">>,
   <<".","s","c","s","s">>,
   <<".","l","e","s","s">>,
   <<".","h","t","m","l">>,
   <<".","h","t","m">>,
   <<".","s","q","l">>,
   <<".","s","h">>,
   <<".","b","a","s","h">>,
   <<".","z","s","h">>,
   <<".","y","a","m","l">>,
   <<".","y","m","l">>,
   <<".","t","o","m","l">>,
   <<".","g","r","a","p","h","q","l">>,
   <<".","g","q","l">>,
   <<".","p","r","o","t","o">>}

\* const CONFIG_FILES
CONFIG_FILES ==
  {<<"p","a","c","k","a","g","e",".","j","s","o","n">>,
   <<"t","s","c","o","n","f","i","g",".","j","s","o","n">>,
   <<"t","s","c","o","n","f","i","g",".","b","a","s","e",".","j","s","o","n">>,
   <<".","e","s","l","i","n","t","r","c",".","j","s","o","n">>,
   <<".","e","s","l","i","n","t","r","c",".","j","s">>,
   <<".","e","s","l","i","n","t","r","c",".","c","j","s">>,
   <<"e","s","l","i","n","t",".","c","o","n","f","i","g",".","j","s">>,
   <<"e","s","l","i","n","t",".","c","o","n","f","i","g",".","m","j","s">>,
   <<".","p","r","e","t","t","i","e","r","r","c">>,
   <<".","p","r","e","t","t","i","e","r","r","c",".","j","s","o","n">>,
   <<"p","r","e","t","t","i","e","r",".","c","o","n","f","i","g",".","j","s">>,
   <<"b","i","o","m","e",".","j","s","o","n">>,
   <<"v","i","t","e",".","c","o","n","f","i","g",".","t","s">>,
   <<"v","i","t","e",".","c","o","n","f","i","g",".","j","s">>,
   <<"n","e","x","t",".","c","o","n","f","i","g",".","j","s">>,
   <<"n","e","x","t",".","c","o","n","f","i","g",".","m","j","s">>,
   <<"n","e","x","t",".","c","o","n","f","i","g",".","t","s">>,
   <<"n","u","x","t",".","c","o","n","f","i","g",".","t","s">>,
   <<"s","v","e","l","t","e",".","c","o","n","f","i","g",".","j","s">>,
   <<"a","s","t","r","o",".","c","o","n","f","i","g",".","m","j","s">>,
   <<"t","a","i","l","w","i","n","d",".","c","o","n","f","i","g",".","j","s">>,
   <<"t","a","i","l","w","i","n","d",".","c","o","n","f","i","g",".","t","s">>,
   <<"p","o","s","t","c","s","s",".","c","o","n","f","i","g",".","j","s">>,
   <<"w","e","b","p","a","c","k",".","c","o","n","f","i","g",".","j","s">>,
   <<"r","o","l","l","u","p",".","c","o","n","f","i","g",".","j","s">>,
   <<"v","i","t","e","s","t",".","c","o","n","f","i","g",".","t","s">>,
   <<"v","i","t","e","s","t",".","c","o","n","f","i","g",".","j","s">>,
   <<"j","e","s","t",".","c","o","n","f","i","g",".","j","s">>,
   <<"j","e","s","t",".","c","o","n","f","i","g",".","t","s">>,
   <<"p","l","a","y","w","r","i","g","h","t",".","c","o","n","f","i","g",".","t","s">>,
   <<"d","o","c","k","e","r","-","c","o","m","p","o","s","e",".","y","m","l">>,
   <<"d","o","c","k","e","r","-","c","o","m","p","o","s","e",".","y","a","m","l">>,
   <<"D","o","c","k","e","r","f","i","l","e">>,
   <<".","d","o","c","k","e","r","i","g","n","o","r","e">>,
   <<"M","a","k","e","f","i","l","e">>,
   <<"C","a","r","g","o",".","t","o","m","l">>,
   <<"g","o",".","m","o","d">>,
   <<"g","o",".","s","u","m">>,
   <<"r","e","q","u","i","r","e","m","e","n","t","s",".","t","x","t">>,
   <<"p","y","p","r","o","j","e","c","t",".","t","o","m","l">>,
   <<"s","e","t","u","p",".","p","y">>,
   <<"s","e","t","u","p",".","c","f","g">>,
   <<"G","e","m","f","i","l","e">>,
   <<"p","o","m",".","x","m","l">>,
   <<"b","u","i","l","d",".","g","r","a","d","l","e">>,
   <<"b","u","i","l","d",".","g","r","a","d","l","e",".","k","t","s">>,
   <<".","e","n","v",".","e","x","a","m","p","l","e">>,
   <<"p","r","i","s","m","a","/","s","c","h","e","m","a",".","p","r","i","s","m","a">>,
   <<"d","r","i","z","z","l","e",".","c","o","n","f","i","g",".","t","s">>}

\* basename(entry.name): the part of the path after its last '/'
basename(relPath) == LastSegment(relPath)

\* const isConfig = CONFIG_FILES.has(name) || CONFIG_FILES.has(relPath)
isConfigFile(relPath) == basename(relPath) \in CONFIG_FILES \/ relPath \in CONFIG_FILES

\* the record the walker pushes for a file (the fields select and priority read)
candidate(relPath, size, tokens) ==
  [relativePath |-> relPath, isConfig |-> isConfigFile(relPath),
   size |-> size, tokens |-> tokens]

-----------------------------------------------------------------------------
(* budgeter.select(files, maxFiles) *)

\* a plausible slip: the count test lets one file too many through
visitCountOffByOne(file, sel, budget, maxF) ==
  IF Len(sel) > maxF THEN "break"
  ELSE IF file.tokens > budget THEN "continue"
  ELSE "push"

\* a plausible slip: an oversized file ends the loop
visitStopsOnOversize(file, sel, budget, maxF) ==
  IF Len(sel) >= maxF THEN "break"
  ELSE IF file.tokens > budget THEN "break"
  ELSE "push"

\* the body of the for-of loop: what it does with `file`
visit(file, sel, budget, maxF) ==
  IF Len(sel) >= maxF THEN "break"
  ELSE IF file.tokens > budget THEN "continue"
  ELSE "push"

\* a plausible slip: files.sort(...) sorts the argument in place
SelectCallSortsInPlace ==
  /\ bpc = "call"
  /\ files' = SortFiles(files)
  /\ sorted' = SortFiles(files)
  /\ selected' = <<>>
  /\ tokenBudget' = BUDGET
  /\ idx' = 1
  /\ bpc' = "loop"
  /\ UNCHANGED <<maxFiles, turns, returned, notBudget>>

\* const sorted = [...files].sort(...); const selected = []; let tokenBudget = BUDGET
SelectCall ==
  /\ bpc = "call"
  /\ sorted' = SortFiles(files)
  /\ selected' = <<>>
  /\ tokenBudget' = BUDGET
  /\ idx' = 1
  /\ bpc' = "loop"
  /\ UNCHANGED <<files, maxFiles, turns, returned, notBudget>>

\* if (selected.length >= maxFiles) break
LoopBreak ==
  /\ bpc = "loop"
  /\ idx <= Len(sorted)
  /\ visit(sorted[idx], selected, tokenBudget, maxFiles) = "break"
  /\ bpc' = "done"
  /\ UNCHANGED <<files, maxFiles, sorted, selected, tokenBudget, idx, turns, returned, notBudget>>

\* if (file.tokens > tokenBudget) continue
LoopContinue ==
  /\ bpc = "loop"
  /\ idx <= Len(sorted)
  /\ visit(sorted[idx], selected, tokenBudget, maxFiles) = "continue"
  /\ idx' = idx + 1
  /\ turns' = Append(turns, [did |-> "continue", budget |-> tokenBudget, count |-> Len(selected)])
  /\ UNCHANGED <<files, maxFiles, sorted, selected, tokenBudget, bpc, returned, notBudget>>

\* selected.push(file); tokenBudget -= file.tokens
LoopPush ==
  /\ bpc = "loop"
  /\ idx <= Len(sorted)
  /\ visit(sorted[idx], selected, tokenBudget, maxFiles) = "push"
  /\ selected' = Append(selected, sorted[idx])
  /\ tokenBudget' = tokenBudget - sorted[idx].tokens
  /\ idx' = idx + 1
  /\ turns' = Append(turns, [did |-> "push", budget |-> tokenBudget, count |-> Len(selected)])
  /\ UNCHANGED <<files, maxFiles, sorted, bpc, returned, notBudget>>

\* the loop ran off the end of sorted; return selected
LoopEnd ==
  /\ bpc = "loop"
  /\ idx > Len(sorted)
  /\ bpc' = "done"
  /\ UNCHANGED <<files, maxFiles, sorted, selected, tokenBudget, idx, turns, returned, notBudget>>

\* the invocations of select on one candidate list: 1..MaxCalls
MaxCalls == 2

\* select has returned and is called again with the same arguments. Its
\* locals are gone with the call; nothing else is left of it.
CallAgain ==
  /\ bpc = "done"
  /\ Len(returned) + 1 < MaxCalls
  /\ returned' = Append(returned, selected)
  /\ turns' = <<>>
  /\ bpc' = "call"
  /\ UNCHANGED <<files, maxFiles, sorted, selected, tokenBudget, idx, notBudget>>

NextBudget == SelectCall \/ LoopBreak \/ LoopContinue \/ LoopPush \/ LoopEnd \/ CallAgain

\* the candidate lists select is called with: at most MaxCandidates records
MaxCandidates == 3
\* the values of maxFiles select is called with: 0..MaxFilesArg
MaxFilesArg == 3

\* Candidate records. select is exported and takes any list of records, so the
\* token counts range up to and past BUDGET to make the budget bind.
FilePool ==
  {candidate(<<"p","a","c","k","a","g","e",".","j","s","o","n">>, 2000, 500),
   candidate(<<"t","s","c","o","n","f","i","g",".","j","s","o","n">>, 3560004, 890001),
   candidate(<<"s","r","c","/","i","n","d","e","x",".","t","s">>, 3559960, 889990),
   candidate(<<"s","r","c","/","l","i","b","/","b","i","g",".","j","s">>, 4000, 1000),
   candidate(<<"s","r","c","/","l","i","b","/","s","m","a","l","l",".","j","s">>, 40, 10),
   candidate(<<"s","r","c","/","l","i","b","/","o","t","h","e","r",".","j","s">>, 40, 10),
   candidate(<<"t","e","s","t","/","a","p","p",".","t","e","s","t",".","j","s">>, 3560000, 890000),
   candidate(<<"s","r","c","/","r","o","u","t","e","s","/","u","s","e","r",".","j","s">>, 500, 125),
   candidate(<<".","e","s","l","i","n","t","r","c",".","j","s","o","n">>, 300, 75)}

\* the lists of distinct records of FilePool, up to MaxCandidates long
CandidateLists ==
  {fs \in UNION {[1..n -> FilePool] : n \in 0..MaxCandidates} :
     \A i, j \in DOMAIN fs : i # j => fs[i] # fs[j]}

PriorityIdle == pfile = <<>> /\ pclass = -1 /\ ppc = "idle"

ExtractIdle == text = <<>> /\ rules = <<>> /\ produced = <<>> /\ mode = "none" /\ xpc = "idle"

RoundTripIdle == rtRule = <<>> /\ rtOut = <<>> /\ rtBack = <<>> /\ rtpc = "idle"

MainIdle ==
  /\ argv = <<>> /\ envKey = <<>> /\ opts = <<>> /\ mfiles = <<>> /\ mselected = <<>>
  /\ mrules = <<>> /\ mcalls = <<>> /\ stderr = <<>> /\ exitCode = -1 /\ mpc = "idle"

ApiIdle ==
  /\ incoming = <<>> /\ data = <<>> /\ requests = 0 /\ promise = <<>> /\ reqState = "none"
  /\ errorPending = FALSE /\ outcome = "none" /\ surfaced = <<>> /\ apc = "idle"

BudgetIdle ==
  /\ files = <<>> /\ maxFiles = 0 /\ sorted = <<>> /\ selected = <<>>
  /\ tokenBudget = 0 /\ idx = 0 /\ turns = <<>> /\ bpc = "idle" /\ returned = <<>>

InitBudget ==
  /\ files \in CandidateLists
  /\ maxFiles \in 0..MaxFilesArg
  /\ sorted = <<>>
  /\ selected = <<>>
  /\ tokenBudget = 0
  /\ idx = 0
  /\ turns = <<>>
  /\ bpc = "call"
  /\ returned = <<>>
  /\ PriorityIdle /\ ExtractIdle /\ RoundTripIdle /\ MainIdle /\ ApiIdle

SpecBudget == InitBudget /\ [][NextBudget]_vars

-----------------------------------------------------------------------------
(* priority(file) *)

PriorityCall ==
  /\ ppc = "call"
  /\ pclass' = priority(pfile)
  /\ ppc' = "done"
  /\ UNCHANGED <<pfile, notPriority>>

NextPriority == PriorityCall

PoolDirs ==
  {<<>>, <<"s","r","c","/">>, <<"S","R","C","/","M","o","d","e","l","s","/">>, <<"a","p","i","/">>, <<"s","r","c","/","r","o","u","t","e","s","/">>, <<"l","i","b","/","u","t","i","l","s","/">>,
   <<"s","r","c","/","c","o","m","p","o","n","e","n","t","s","/">>, <<"t","e","s","t","s","/">>, <<"a","p","p","/","h","o","o","k","s","/">>, <<"d","o","c","s","/">>}

PoolNames ==
  {<<"i","n","d","e","x",".","t","s">>, <<"M","a","i","n",".","J","S","X">>, <<"m","a","i","n",".","p","y">>, <<"s","e","r","v","e","r",".","m","j","s">>, <<"u","s","e","r",".","j","s">>,
   <<"U","s","e","r","C","o","n","t","r","o","l","l","e","r",".","t","s">>, <<"s","c","h","e","m","a",".","s","q","l">>, <<"a","p","p",".","t","e","s","t",".","j","s">>, <<"p","a","c","k","a","g","e",".","j","s","o","n">>,
   <<"h","e","l","p","e","r",".","s","p","e","c",".","t","s">>}

\* the files priority is called with, as the walker records them
PriorityPool == {candidate(d \o n, 100, 25) : d \in PoolDirs, n \in PoolNames}

InitPriority ==
  /\ pfile \in PriorityPool
  /\ pclass = -1
  /\ ppc = "call"
  /\ BudgetIdle /\ ExtractIdle /\ RoundTripIdle /\ MainIdle /\ ApiIdle

SpecPriority == InitPriority /\ [][NextPriority]_vars

-----------------------------------------------------------------------------
(* Properties of budgeter.select *)

RECURSIVE SumTokens(_)
SumTokens(fs) == IF fs = <<>> THEN 0 ELSE Head(fs).tokens + SumTokens(Tail(fs))

IsSelected(f) == \E i \in DOMAIN selected : selected[i] = f

PositionIn(fs, f) == CHOOSE i \in DOMAIN fs : fs[i] = f

SomeContinue == \E k \in DOMAIN turns : turns[k].did = "continue"

\* C1: whatever the candidates and maxFiles, the selected files never hold
\* more than BUDGET tokens together and are never more than maxFiles.
BudgetInvariant ==
  bpc \in {"loop", "done"} =>
    /\ SumTokens(selected) <= BUDGET
    /\ Len(selected) <= maxFiles

\* C1 witness: a finished call in which a candidate was skipped for its size
\* and both limits are met exactly.
BudgetInvariantWitness ==
  /\ bpc = "done"
  /\ maxFiles >= 1
  /\ Len(selected) = maxFiles
  /\ SumTokens(selected) = BUDGET
  /\ SomeContinue

\* C2: the selected files are in priority order, and within one priority the
\* larger file comes first.
PriorityMonotonicity ==
  bpc \in {"loop", "done"} =>
    \A i, j \in DOMAIN selected :
      i < j =>
        \/ priority(selected[i]) < priority(selected[j])
        \/ /\ priority(selected[i]) = priority(selected[j])
           /\ selected[i].size >= selected[j].size

\* C2 witness: two selected files of one priority, the larger first although it
\* was discovered later, in a call that also skipped a candidate.
PriorityMonotonicityWitness ==
  /\ bpc = "done"
  /\ SomeContinue
  /\ \E i, j \in DOMAIN selected :
       /\ i < j
       /\ priority(selected[i]) = priority(selected[j])
       /\ selected[i].size > selected[j].size
       /\ PositionIn(files, selected[i]) > PositionIn(files, selected[j])

\* C3: a candidate that does not fit is passed over and the loop goes on. A
\* candidate missing from the result either was never reached because the
\* count had hit maxFiles, or held more tokens than were left at its turn.
\* With 10 tokens left, a 1000-token candidate followed by a 10-token one
\* yields the 10-token one; a candidate above BUDGET is never selected.
SkipDontStop ==
  bpc = "done" =>
    /\ \A k \in DOMAIN sorted :
         ~IsSelected(sorted[k]) =>
           \/ k >= idx /\ Len(selected) >= maxFiles
           \/ /\ k < idx
              /\ turns[k].did = "continue"
              /\ sorted[k].tokens > turns[k].budget
    /\ \A k \in DOMAIN sorted :
         ( /\ k < idx /\ k + 1 <= Len(sorted)
           /\ turns[k].budget = 10 /\ turns[k].count < maxFiles
           /\ sorted[k].tokens = 1000 /\ sorted[k + 1].tokens = 10 )
         => /\ ~IsSelected(sorted[k])
            /\ IsSelected(sorted[k + 1])
    /\ \A k \in DOMAIN sorted : sorted[k].tokens > BUDGET => ~IsSelected(sorted[k])

\* C3 witness: with 10 tokens left the loop passed over a 1000-token candidate
\* and then took a 10-token one.
SkipDontStopWitness ==
  /\ bpc = "done"
  /\ \E k \in DOMAIN turns :
       /\ k + 1 \in DOMAIN turns
       /\ turns[k].budget = 10 /\ sorted[k].tokens = 1000 /\ turns[k].did = "continue"
       /\ sorted[k + 1].tokens = 10 /\ turns[k + 1].did = "push"
       /\ IsSelected(sorted[k + 1]) /\ ~IsSelected(sorted[k])

-----------------------------------------------------------------------------
(* Properties of priority *)

\* extname(name): from the last '.' of name on, unless name has none or only
\* a leading one
extname(name) ==
  LET dots == {i \in DOMAIN name : name[i] = "." /\ i > 1}
  IN IF dots = {} THEN <<>>
     ELSE From(name, CHOOSE i \in dots : \A j \in dots : j <= i)

\* index, main, app or server followed by an extension the walker counts as source
IsEntryPointWithSourceExt(name) ==
  \E base \in {<<"i","n","d","e","x">>, <<"m","a","i","n">>, <<"a","p","p">>, <<"s","e","r","v","e","r">>} :
    /\ StartsAt(name, 1, base)
    /\ From(name, Len(base) + 1) = extname(name)
    /\ extname(name) \in SOURCE_EXTS

\* the class of the first matching step, as the steps are stated
FirstMatchClass(file) ==
  LET rel == toLowerCase(file.relativePath)
      name == LastSegment(rel)
  IN CASE file.isConfig -> 0
       [] IsEntryPointWithSourceExt(name) -> 1
       [] includes(rel, <<"s","c","h","e","m","a">>) \/ includes(rel, <<"m","o","d","e","l">>) \/ includes(rel, <<"p","r","i","s","m","a">>) -> 2
       [] includes(rel, <<"r","o","u","t","e">>) \/ includes(rel, <<"a","p","i","/">>) \/ includes(rel, <<"c","o","n","t","r","o","l","l","e","r">>) -> 3
       [] includes(rel, <<"m","i","d","d","l","e","w","a","r","e">>) \/ includes(rel, <<"h","o","o","k">>) \/ includes(rel, <<"u","t","i","l">>) -> 4
       [] includes(rel, <<"c","o","m","p","o","n","e","n","t">>) -> 5
       [] includes(rel, <<"t","e","s","t">>) \/ includes(rel, <<"s","p","e","c">>) -> 7
       [] OTHER -> 6

\* C8: priority returns a class in 0..7, the class of the first matching step
\* (config, entry point with a source extension, schema/model, route/API,
\* middleware/hook/util, component, test, else generic), whatever the case of
\* the path.
PriorityFirstMatch ==
  ppc = "done" =>
    /\ pclass \in 0..7
    /\ pclass = FirstMatchClass(pfile)

-----------------------------------------------------------------------------
(* src/gemini.js: the regular expressions of the parser *)

\* \s of a regular expression, and the characters String.prototype.trim removes
WhiteSpace == {" ", "\t", "\n", "\r"}

\* the characters '.' does not match, and after which ^ matches under /m
LineTerminators == {"\n", "\r"}

\* the character U+0060 (grave accent), which a TLA+ string cannot hold
Backtick == "U+0060"

\* [a-z0-9]
LowerAlnum == Range(LowerChars) \cup Range(DigitChars)

Min(S) == CHOOSE x \in S : \A y \in S : x <= y

Max(S) == CHOOSE x \in S : \A y \in S : y <= x

\* the positions at which the literal t occurs in s
Occurrences(s, t) == {i \in 1..Len(s) : StartsAt(s, i, t)}

\* the literal t occurs at position i of s, whatever the case of the letters (/i)
StartsAtIgnoreCase(s, i, t) ==
  /\ i >= 1
  /\ i + Len(t) - 1 <= Len(s)
  /\ \A k \in 1..Len(t) : LowerChar(s[i + k - 1]) = LowerChar(t[k])

\* String.prototype.trim
trim(s) ==
  LET keep == {i \in DOMAIN s : s[i] \notin WhiteSpace}
  IN IF keep = {} THEN <<>> ELSE SubSeq(s, Min(keep), Max(keep))

\* the position after the longest run of \s that starts at position i
RECURSIVE SkipSpace(_, _)
SkipSpace(s, i) ==
  IF i <= Len(s) /\ s[i] \in WhiteSpace THEN SkipSpace(s, i + 1) ELSE i

\* the last position of the longest run of '.' that starts at position i
\* (i - 1 when the run is empty)
RECURSIVE LineEnd(_, _)
LineEnd(s, i) ==
  IF i <= Len(s) /\ s[i] \notin LineTerminators THEN LineEnd(s, i + 1) ELSE i - 1

\* \s*(.+) tried at position i: \s* takes the longest run of white space and
\* gives characters back until '.' matches. The start of the group, 0 for no match.
SpacesThenLine(s, i) ==
  LET starts == {j \in i..SkipSpace(s, i) : j <= Len(s) /\ s[j] \notin LineTerminators}
  IN IF starts = {} THEN 0 ELSE Max(starts)

\* /<key>\s*(.+)/ on s: the captured group of the first match, as
\* [found, group]
MatchKeyLine(s, key) ==
  LET hits == {i \in Occurrences(s, key) : SpacesThenLine(s, i + Len(key)) # 0}
  IN IF hits = {} THEN [found |-> FALSE, group |-> <<>>]
     ELSE LET g == SpacesThenLine(s, Min(hits) + Len(key))
          IN [found |-> TRUE, group |-> SubSeq(s, g, LineEnd(s, g))]

\* (\[.+\]) tried at position i: '[', then as many '.' as possible, then ']'.
\* The position of the closing bracket, 0 for no match.
BracketGreedy(s, i) ==
  IF i <= Len(s) /\ s[i] = "["
  THEN LET closes == {j \in (i + 2)..LineEnd(s, i + 1) : s[j] = "]"}
       IN IF closes = {} THEN 0 ELSE Max(closes)
  ELSE 0

\* (\[.+?\]) tried at position i: '[', then as few '.' as possible, then ']'
BracketLazy(s, i) ==
  IF i <= Len(s) /\ s[i] = "["
  THEN LET closes == {j \in (i + 2)..LineEnd(s, i + 1) : s[j] = "]"}
       IN IF closes = {} THEN 0 ELSE Min(closes)
  ELSE 0

\* /globs:\s*(\[.+\])/ on s. '[' is no white space, so \s* takes the whole run.
MatchGlobs(s) ==
  LET key == <<"g","l","o","b","s",":">>
      hits == {i \in Occurrences(s, key) : BracketGreedy(s, SkipSpace(s, i + Len(key))) # 0}
  IN IF hits = {} THEN [found |-> FALSE, group |-> <<>>]
     ELSE LET open == SkipSpace(s, Min(hits) + Len(key))
          IN [found |-> TRUE, group |-> SubSeq(s, open, BracketGreedy(s, open))]

\* (true|false) tried at position i, letter case ignored or not
TrueOrFalseAt(s, i, ignoreCase) ==
  LET at(t) == IF ignoreCase THEN StartsAtIgnoreCase(s, i, t) ELSE StartsAt(s, i, t)
  IN IF at(<<"t","r","u","e">>) THEN 4 ELSE IF at(<<"f","a","l","s","e">>) THEN 5 ELSE 0

\* /alwaysApply:\s*(true|false)/ on s
MatchAlways(s) ==
  LET key == <<"a","l","w","a","y","s","A","p","p","l","y",":">>
      hits == {i \in Occurrences(s, key) :
                 TrueOrFalseAt(s, SkipSpace(s, i + Len(key)), FALSE) # 0}
  IN IF hits = {} THEN [found |-> FALSE, group |-> <<>>]
     ELSE LET g == SkipSpace(s, Min(hits) + Len(key))
          IN [found |-> TRUE, group |-> SubSeq(s, g, g + TrueOrFalseAt(s, g, FALSE) - 1)]

\* /\*\*Globs?:\*\*\s*(U+0060)?(\[.+?\])(U+0060)?/ on s
MatchGlobsMd(s) ==
  LET keys == {<<"*","*","G","l","o","b","s",":","*","*">>, <<"*","*","G","l","o","b",":","*","*">>}
      \* where the group would open after the key that ends before position e
      opening(e) == LET w == SkipSpace(s, e)
                    IN IF w <= Len(s) /\ s[w] = Backtick THEN w + 1 ELSE w
      hits == {i \in 1..Len(s) :
                 \E k \in keys : StartsAt(s, i, k) /\ BracketLazy(s, opening(i + Len(k))) # 0}
  IN IF hits = {} THEN [found |-> FALSE, group |-> <<>>]
     ELSE LET i == Min(hits)
              k == CHOOSE k \in keys : StartsAt(s, i, k)
              open == opening(i + Len(k))
          IN [found |-> TRUE, group |-> SubSeq(s, open, BracketLazy(s, open))]

\* /\*\*alwaysApply:\*\*\s*(true|false)/i on s
MatchAlwaysMd(s) ==
  LET key == <<"*","*","a","l","w","a","y","s","A","p","p","l","y",":","*","*">>
      hits == {i \in 1..Len(s) :
                 /\ StartsAtIgnoreCase(s, i, key)
                 /\ TrueOrFalseAt(s, SkipSpace(s, i + Len(key)), TRUE) # 0}
  IN IF hits = {} THEN [found |-> FALSE, group |-> <<>>]
     ELSE LET g == SkipSpace(s, Min(hits) + Len(key))
          IN [found |-> TRUE, group |-> SubSeq(s, g, g + TrueOrFalseAt(s, g, TRUE) - 1)]

\* ^ under /m matches at position i
AtLineStart(s, i) == i = 1 \/ (i > 1 /\ i <= Len(s) + 1 /\ s[i - 1] \in LineTerminators)

\* #\s+ tried at position i: the position after the white space, 0 for no match
HashSpaces(s, i) ==
  IF i < Len(s) /\ s[i] = "#" /\ s[i + 1] \in WhiteSpace THEN SkipSpace(s, i + 1) ELSE 0

\* #\s+(.+) tried at position i: \s+ takes the longest run and gives back all
\* but one character until '.' matches. The start of the group, 0 for no match.
HashSpacesLine(s, i) ==
  IF HashSpaces(s, i) = 0 THEN 0
  ELSE LET starts == {j \in (i + 2)..HashSpaces(s, i) :
                        j <= Len(s) /\ s[j] \notin LineTerminators}
       IN IF starts = {} THEN 0 ELSE Max(starts)

\* s.match(/^#\s+(.+)/m): [found, index, match (m[0]), group (m[1])]
MatchHeading(s) ==
  LET hits == {i \in 1..Len(s) : AtLineStart(s, i) /\ HashSpacesLine(s, i) # 0}
  IN IF hits = {} THEN [found |-> FALSE, index |-> 0, match |-> <<>>, group |-> <<>>]
     ELSE LET i == Min(hits)
              g == HashSpacesLine(s, i)
          IN [found |-> TRUE, index |-> i,
              match |-> SubSeq(s, i, LineEnd(s, g)),
              group |-> SubSeq(s, g, LineEnd(s, g))]

\* s.search(/^#\s+/m), 1-based; 0 for -1
SearchHeading(s) ==
  LET hits == {i \in 1..Len(s) : AtLineStart(s, i) /\ HashSpaces(s, i) # 0}
  IN IF hits = {} THEN 0 ELSE Min(hits)

\* title.replace(/^Rule:\s*/i, '')
StripRulePrefix(title) ==
  LET key == <<"R","u","l","e",":">>
  IN IF StartsAtIgnoreCase(title, 1, key)
     THEN From(title, SkipSpace(title, Len(key) + 1))
     ELSE title

\* chunk.match(/---\n([\s\S]*?)\n---\n([\s\S]*)$/): the leftmost '---\n' that
\* has a '\n---\n' behind it, and the nearest such; [found, fm (m[1]), rest (m[2])]
MatchFrontmatter(chunk) ==
  LET open == <<"-","-","-","\n">>
      close == <<"\n","-","-","-","\n">>
      closesAfter(i) == {j \in Occurrences(chunk, close) : j >= i + Len(open)}
      hits == {i \in Occurrences(chunk, open) : closesAfter(i) # {}}
  IN IF hits = {} THEN [found |-> FALSE, fm |-> <<>>, rest |-> <<>>]
     ELSE LET i == Min(hits)
              j == Min(closesAfter(i))
          IN [found |-> TRUE,
              fm |-> SubSeq(chunk, i + Len(open), j - 1),
              rest |-> From(chunk, j + Len(close))]

\* chunk.match(/\*\*Rule:\*\*\n([\s\S]*)/): [found, group]
MatchRuleBody(chunk) ==
  LET key == <<"*","*","R","u","l","e",":","*","*","\n">>
      hits == Occurrences(chunk, key)
  IN IF hits = {} THEN [found |-> FALSE, group |-> <<>>]
     ELSE [found |-> TRUE, group |-> From(chunk, Min(hits) + Len(key))]

\* title.toLowerCase().replace(/[^a-z0-9]+/g, '-'): each run of other
\* characters becomes one hyphen
RECURSIVE HyphenateRuns(_)
HyphenateRuns(s) ==
  IF s = <<>> THEN <<>>
  ELSE IF Head(s) \in LowerAlnum THEN <<Head(s)>> \o HyphenateRuns(Tail(s))
  ELSE LET rest == HyphenateRuns(Tail(s))
       IN IF Len(s) > 1 /\ s[2] \notin LowerAlnum THEN rest ELSE <<"-">> \o rest

\* .replace(/^-|-$/g, ''): one leading and one trailing hyphen go
TrimHyphens(s) ==
  LET a == IF s # <<>> /\ Head(s) = "-" THEN Tail(s) ELSE s
  IN IF a # <<>> /\ a[Len(a)] = "-" THEN SubSeq(a, 1, Len(a) - 1) ELSE a

\* .slice(0, 50)
SLUG_MAX == 50

\* the filename of a rule, from its title
slug(title) ==
  LET t == TrimHyphens(HyphenateRuns(toLowerCase(title)))
  IN SubSeq(t, 1, IF Len(t) < SLUG_MAX THEN Len(t) ELSE SLUG_MAX)

-----------------------------------------------------------------------------
(* JSON values, JSON.parse and JSON.stringify *)

\* A JSON value is [t, v]: t its type and v its content, a sequence throughout:
\* the characters of a string or of a number's lexeme, the elements of an
\* array, the members [k, v] of an object in source order.
Undefined == [t |-> "undefined", v |-> <<>>]
JsonNull == [t |-> "null", v |-> <<>>]
JsonBool(b) == [t |-> "boolean", v |-> IF b THEN <<"t","r","u","e">> ELSE <<"f","a","l","s","e">>]
JsonNum(lexeme) == [t |-> "number", v |-> lexeme]
JsonStr(chars) == [t |-> "string", v |-> chars]
JsonArr(elems) == [t |-> "array", v |-> elems]
JsonObj(members) == [t |-> "object", v |-> members]

\* the white space of the JSON grammar
JsonWhiteSpace == {" ", "\t", "\n", "\r"}

RECURSIVE SkipJsonWs(_, _)
SkipJsonWs(s, i) ==
  IF i <= Len(s) /\ s[i] \in JsonWhiteSpace THEN SkipJsonWs(s, i + 1) ELSE i

\* the result of a failed parse (JSON.parse throws SyntaxError)
ParseFail == [ok |-> FALSE, v |-> Undefined, i |-> 0]

\* the character an escape \c stands for; <<>> for one this model does not read
\* (\b, \f and \uXXXX do not occur in the texts considered)
Unescape(c) ==
  CASE c = "\"" -> <<"\"">>
    [] c = "\\" -> <<"\\">>
    [] c = "/" -> <<"/">>
    [] c = "n" -> <<"\n">>
    [] c = "r" -> <<"\r">>
    [] c = "t" -> <<"\t">>
    [] OTHER -> <<>>

\* the characters of a string literal from position i on (behind its opening
\* quote) up to its closing quote; control characters must be escaped. acc,
\* the characters read so far, is never longer than s: its length is looked at
\* so that it is computed step by step.
RECURSIVE ScanString(_, _, _)
ScanString(s, i, acc) ==
  IF i > Len(s) \/ Len(acc) > Len(s) THEN ParseFail
  ELSE IF s[i] = "\"" THEN [ok |-> TRUE, v |-> JsonStr(acc), i |-> i + 1]
  ELSE IF s[i] \in {"\n", "\r", "\t"} THEN ParseFail
  ELSE IF s[i] = "\\"
       THEN IF i + 1 > Len(s) \/ Unescape(s[i + 1]) = <<>> THEN ParseFail
            ELSE ScanString(s, i + 2, acc \o Unescape(s[i + 1]))
  ELSE ScanString(s, i + 1, Append(acc, s[i]))

\* the position after the longest run of digits that starts at position i
RECURSIVE SkipDigits(_, _)
SkipDigits(s, i) ==
  IF i <= Len(s) /\ s[i] \in Range(DigitChars) THEN SkipDigits(s, i + 1) ELSE i

\* a number: -? (0 | [1-9][0-9]*) (\.[0-9]+)? ; exponents do not occur in
\* the texts considered
ScanNumber(s, i) ==
  LET d == IF s[i] = "-" THEN i + 1 ELSE i
      e == SkipDigits(s, d)
      intOk == e > d /\ (s[d] = "0" => e = d + 1)
      f == IF e <= Len(s) /\ s[e] = "." THEN SkipDigits(s, e + 1) ELSE e
      fracOk == f = e \/ f > e + 1
  IN IF d <= Len(s) /\ intOk /\ fracOk
     THEN [ok |-> TRUE, v |-> JsonNum(SubSeq(s, i, f - 1)), i |-> f]
     ELSE ParseFail

\* the members of an object after member is set: a name that is already
\* there keeps its place and takes the new value
SetMember(members, member) ==
  IF \E m \in DOMAIN members : members[m].k = member.k
  THEN [m \in DOMAIN members |-> IF members[m].k = member.k THEN member ELSE members[m]]
  ELSE Append(members, member)

RECURSIVE ParseValue(_, _), ParseElements(_, _, _), ParseMembers(_, _, _)

\* a value at position i, leading white space skipped
ParseValue(s, i) ==
  LET j == SkipJsonWs(s, i)
  IN IF j > Len(s) THEN ParseFail
     ELSE IF s[j] = "[" THEN
       (IF SkipJsonWs(s, j + 1) <= Len(s) /\ s[SkipJsonWs(s, j + 1)] = "]"
        THEN [ok |-> TRUE, v |-> JsonArr(<<>>), i |-> SkipJsonWs(s, j + 1) + 1]
        ELSE ParseElements(s, j + 1, <<>>))
     ELSE IF s[j] = "{" THEN
       (IF SkipJsonWs(s, j + 1) <= Len(s) /\ s[SkipJsonWs(s, j + 1)] = "}"
        THEN [ok |-> TRUE, v |-> JsonObj(<<>>), i |-> SkipJsonWs(s, j + 1) + 1]
        ELSE ParseMembers(s, j + 1, <<>>))
     ELSE IF s[j] = "\"" THEN ScanString(s, j + 1, <<>>)
     ELSE IF StartsAt(s, j, <<"t","r","u","e">>) THEN [ok |-> TRUE, v |-> JsonBool(TRUE), i |-> j + 4]
     ELSE IF StartsAt(s, j, <<"f","a","l","s","e">>) THEN [ok |-> TRUE, v |-> JsonBool(FALSE), i |-> j + 5]
     ELSE IF StartsAt(s, j, <<"n","u","l","l">>) THEN [ok |-> TRUE, v |-> JsonNull, i |-> j + 4]
     ELSE IF s[j] = "-" \/ s[j] \in Range(DigitChars) THEN ScanNumber(s, j)
     ELSE ParseFail

\* the elements of an array from position i on, acc those read so far
ParseElements(s, i, acc) ==
  LET e == ParseValue(s, i)
      j == SkipJsonWs(s, e.i)
  IN IF ~e.ok \/ j > Len(s) THEN ParseFail
     ELSE IF s[j] = "," THEN ParseElements(s, j + 1, Append(acc, e.v))
     ELSE IF s[j] = "]" THEN [ok |-> TRUE, v |-> JsonArr(Append(acc, e.v)), i |-> j + 1]
     ELSE ParseFail

\* the members of an object from position i on, acc those read so far
ParseMembers(s, i, acc) ==
  LET k == SkipJsonWs(s, i)
      key == IF k <= Len(s) /\ s[k] = "\"" THEN ScanString(s, k + 1, <<>>) ELSE ParseFail
      c == SkipJsonWs(s, key.i)
      val == IF key.ok /\ c <= Len(s) /\ s[c] = ":" THEN ParseValue(s, c + 1) ELSE ParseFail
      j == SkipJsonWs(s, val.i)
      member == [k |-> key.v.v, v |-> val.v]
  IN IF ~val.ok \/ j > Len(s) THEN ParseFail
     ELSE IF s[j] = "," THEN ParseMembers(s, j + 1, SetMember(acc, member))
     ELSE IF s[j] = "}" THEN [ok |-> TRUE, v |-> JsonObj(SetMember(acc, member)), i |-> j + 1]
     ELSE ParseFail

\* JSON.parse(text): [ok, v]; ok is FALSE where JSON.parse throws
JSONparse(txt) ==
  LET r == ParseValue(txt, 1)
  IN IF r.ok /\ SkipJsonWs(txt, r.i) > Len(txt)
     THEN [ok |-> TRUE, v |-> r.v]
     ELSE [ok |-> FALSE, v |-> Undefined]

\* a string as JSON.stringify quotes it
RECURSIVE QuoteChars(_)
QuoteChars(s) ==
  IF s = <<>> THEN <<>>
  ELSE (CASE Head(s) = "\"" -> <<"\\", "\"">>
          [] Head(s) = "\\" -> <<"\\", "\\">>
          [] Head(s) = "\n" -> <<"\\", "n">>
          [] Head(s) = "\r" -> <<"\\", "r">>
          [] Head(s) = "\t" -> <<"\\", "t">>
          [] OTHER -> <<Head(s)>>) \o QuoteChars(Tail(s))

RECURSIVE JSONstringify(_), StringifyElements(_), StringifyMembers(_)

\* JSON.stringify(value) of a value JSON.parse returned
JSONstringify(v) ==
  CASE v.t = "string" -> <<"\"">> \o QuoteChars(v.v) \o <<"\"">>
    [] v.t = "array" -> <<"[">> \o StringifyElements(v.v) \o <<"]">>
    [] v.t = "object" -> <<"{">> \o StringifyMembers(v.v) \o <<"}">>
    [] v.t = "null" -> <<"n","u","l","l">>
    [] OTHER -> v.v

StringifyElements(elems) ==
  IF elems = <<>> THEN <<>>
  ELSE JSONstringify(Head(elems)) \o
       (IF Len(elems) > 1 THEN <<",">> \o StringifyElements(Tail(elems)) ELSE <<>>)

StringifyMembers(members) ==
  IF members = <<>> THEN <<>>
  ELSE <<"\"">> \o QuoteChars(Head(members).k) \o <<"\"", ":">> \o
       JSONstringify(Head(members).v) \o
       (IF Len(members) > 1 THEN <<",">> \o StringifyMembers(Tail(members)) ELSE <<>>)

\* value[key] of a parsed value: the member of that name of an object,
\* undefined on anything else (reading a property of null throws: see HasProps)
GetProp(value, key) ==
  IF value.t = "object" /\ \E m \in DOMAIN value.v : value.v[m].k = key
  THEN value.v[CHOOSE m \in DOMAIN value.v : value.v[m].k = key].v
  ELSE Undefined

\* reading a property of value does not throw
HasProps(value) == value.t \notin {"null", "undefined"}

RECURSIVE ToStr(_), JoinElements(_)

\* `${value}`: [ok, s]; ok is FALSE where the conversion throws TypeError (an
\* object with a member named toString, which is not callable)
ToStr(value) ==
  CASE value.t = "undefined" -> [ok |-> TRUE, s |-> <<"u","n","d","e","f","i","n","e","d">>]
    [] value.t = "null" -> [ok |-> TRUE, s |-> <<"n","u","l","l">>]
    [] value.t = "array" -> JoinElements(value.v)
    [] value.t = "object" ->
         IF \E m \in DOMAIN value.v : value.v[m].k = <<"t","o","S","t","r","i","n","g">>
         THEN [ok |-> FALSE, s |-> <<>>]
         ELSE [ok |-> TRUE, s |-> <<"[","o","b","j","e","c","t"," ","O","b","j","e","c","t","]">>]
    [] OTHER -> [ok |-> TRUE, s |-> value.v]

\* Array.prototype.join(','): null elements give the empty string
JoinElements(elems) ==
  IF elems = <<>> THEN [ok |-> TRUE, s |-> <<>>]
  ELSE LET h == IF Head(elems).t = "null" THEN [ok |-> TRUE, s |-> <<>>] ELSE ToStr(Head(elems))
           r == JoinElements(Tail(elems))
       IN [ok |-> h.ok /\ r.ok,
           s |-> h.s \o (IF Len(elems) > 1 THEN <<",">> ELSE <<>>) \o r.s]

-----------------------------------------------------------------------------
(* src/gemini.js: structuredRulesToOutput, parseRules, gemini.generate *)

MAX_RULES == 8

\* the text of a rule file. In parseRules the title line is part of body.
ContentOf(description, globs, alwaysApply, body) ==
  <<"-","-","-","\n","d","e","s","c","r","i","p","t","i","o","n",":"," ">> \o description \o <<"\n","g","l","o","b","s",":"," ">> \o globs \o
  <<"\n","a","l","w","a","y","s","A","p","p","l","y",":"," ">> \o alwaysApply \o <<"\n","-","-","-","\n","\n">> \o body \o <<"\n">>

\* A rule record is what both parsers return, { filename, content, title,
\* description }, together with the values they put into content: globs,
\* alwaysApply and body.

\* the callback of rules.map in structuredRulesToOutput: [ok, rule]; ok is
\* FALSE where it throws TypeError
ruleToOutput(rule) ==
  LET title == GetProp(rule, <<"t","i","t","l","e">>)
      description == ToStr(GetProp(rule, <<"d","e","s","c","r","i","p","t","i","o","n">>))
      globsValue == GetProp(rule, <<"g","l","o","b","s">>)
      globs == IF globsValue.t = "undefined" THEN <<"u","n","d","e","f","i","n","e","d">> ELSE JSONstringify(globsValue)
      alwaysApply == ToStr(GetProp(rule, <<"a","l","w","a","y","s","A","p","p","l","y">>))
      body == ToStr(GetProp(rule, <<"b","o","d","y">>))
  IN IF ~HasProps(rule) \/ title.t # "string" \/ ~description.ok \/ ~alwaysApply.ok \/ ~body.ok
     THEN [ok |-> FALSE, rule |-> <<>>]
     ELSE [ok |-> TRUE,
           rule |-> [filename |-> slug(title.v),
                     content |-> ContentOf(description.s, globs, alwaysApply.s,
                                           <<"#"," ">> \o title.v \o <<"\n","\n">> \o body.s),
                     title |-> title.v,
                     description |-> GetProp(rule, <<"d","e","s","c","r","i","p","t","i","o","n">>),
                     globs |-> globs,
                     alwaysApply |-> alwaysApply.s,
                     body |-> body.s]]

\* structuredRulesToOutput(rules): [ok, rules]; ok is FALSE where it throws
\* TypeError (rules has no map, or the callback throws)
structuredRulesToOutput(parsed) ==
  IF parsed.t # "array" THEN [ok |-> FALSE, rules |-> <<>>]
  ELSE LET outs == [i \in DOMAIN parsed.v |-> ruleToOutput(parsed.v[i])]
       IN IF \E i \in DOMAIN outs : ~outs[i].ok
          THEN [ok |-> FALSE, rules |-> <<>>]
          ELSE [ok |-> TRUE, rules |-> [i \in DOMAIN outs |-> outs[i].rule]]

\* String.prototype.split with a string separator
RECURSIVE SplitLiteral(_, _)
SplitLiteral(s, sep) ==
  IF Occurrences(s, sep) = {} THEN <<s>>
  ELSE LET i == Min(Occurrences(s, sep))
       IN <<SubSeq(s, 1, i - 1)>> \o SplitLiteral(From(s, i + Len(sep)), sep)

\* String.prototype.split with a regular expression whose matches start at the
\* positions in cuts and are width long (0 for a bare lookahead); the pieces of
\* s from position from on. An empty match at the start of a piece splits nothing.
RECURSIVE SplitAt(_, _, _, _)
SplitAt(s, cuts, width, from) ==
  LET next == {c \in cuts : c >= from /\ c + width > from}
  IN IF next = {} THEN <<SubSeq(s, from, Len(s))>>
     ELSE <<SubSeq(s, from, Min(next) - 1)>> \o SplitAt(s, cuts, width, Min(next) + width)

\* .map(s => s.trim()).filter(Boolean)
RECURSIVE TrimAndFilter(_)
TrimAndFilter(pieces) ==
  IF pieces = <<>> THEN <<>>
  ELSE (IF trim(Head(pieces)) = <<>> THEN <<>> ELSE <<trim(Head(pieces))>>)
       \o TrimAndFilter(Tail(pieces))

\* text.split('===RULE===')...
SplitOnDelimiter(txt) == TrimAndFilter(SplitLiteral(txt, <<"=","=","=","R","U","L","E","=","=","=">>))

\* text.split(/(?=---\ndescription:)/g)...
SplitBeforeDescription(txt) ==
  TrimAndFilter(SplitAt(txt,
    {i \in 1..Len(txt) : StartsAt(txt, i, <<"-","-","-","\n","d","e","s","c","r","i","p","t","i","o","n",":">>)}, 0, 1))

\* text.split(/\n(?=---\n(?:description|globs|alwaysApply):)/g)...
SplitBeforeAnyField(txt) ==
  TrimAndFilter(SplitAt(txt,
    {i \in 1..Len(txt) :
       /\ txt[i] = "\n"
       /\ \E key \in {<<"d","e","s","c","r","i","p","t","i","o","n",":">>, <<"g","l","o","b","s",":">>, <<"a","l","w","a","y","s","A","p","p","l","y",":">>} :
            StartsAt(txt, i + 1, <<"-","-","-","\n">> \o key)}, 1, 1))

\* text.match(/---\n/g)?.length > 2
ManyFrontmatterMarks(txt) == Cardinality(Occurrences(txt, <<"-","-","-","\n">>)) > 2

\* the chunks parseRules works on, and the last splitting strategy it used
ChunksOf(txt) ==
  LET first == SplitOnDelimiter(txt)
      second == SplitBeforeDescription(txt)
      third == SplitBeforeAnyField(txt)
  IN IF Len(first) <= 1 /\ ManyFrontmatterMarks(txt)
     THEN IF Len(second) <= 1
          THEN [chunks |-> third, strategy |-> 3]
          ELSE [chunks |-> second, strategy |-> 2]
     ELSE [chunks |-> first, strategy |-> 1]

\* the body of the loop of parseRules: [keep, rule]; keep is FALSE where the
\* chunk is passed over (if (!body) continue)
parseChunk(chunk) ==
  LET fmMatch == MatchFrontmatter(chunk)
      descMatch == MatchKeyLine(fmMatch.fm, <<"d","e","s","c","r","i","p","t","i","o","n",":">>)
      globsMatch == MatchGlobs(fmMatch.fm)
      alwaysMatch == MatchAlways(fmMatch.fm)
      descMd == MatchKeyLine(chunk, <<"*","*","D","e","s","c","r","i","p","t","i","o","n",":","*","*">>)
      globsMd == MatchGlobsMd(chunk)
      alwaysMd == MatchAlwaysMd(chunk)
      ruleBodyMatch == MatchRuleBody(chunk)
      titleLine == MatchHeading(chunk)
      titleIdx == SearchHeading(chunk)
      description ==
        IF fmMatch.found
        THEN (IF descMatch.found THEN trim(descMatch.group) ELSE <<"G","e","n","e","r","a","t","e","d"," ","r","u","l","e">>)
        ELSE (IF descMd.found THEN trim(descMd.group) ELSE <<"G","e","n","e","r","a","t","e","d"," ","r","u","l","e">>)
      globs ==
        IF fmMatch.found
        THEN (IF globsMatch.found THEN globsMatch.group ELSE <<"[","\"","*","*","/","*","\"","]">>)
        ELSE (IF globsMd.found THEN globsMd.group ELSE <<"[","\"","*","*","/","*","\"","]">>)
      alwaysApply ==
        IF fmMatch.found
        THEN (IF alwaysMatch.found THEN alwaysMatch.group ELSE <<"f","a","l","s","e">>)
        ELSE (IF alwaysMd.found THEN alwaysMd.group ELSE <<"f","a","l","s","e">>)
      body ==
        IF fmMatch.found THEN trim(fmMatch.rest)
        ELSE IF ruleBodyMatch.found
             THEN (IF titleLine.found
                   THEN titleLine.match \o <<"\n","\n">> \o trim(ruleBodyMatch.group)
                   ELSE trim(ruleBodyMatch.group))
        ELSE IF titleIdx # 0 THEN trim(From(chunk, titleIdx))
        ELSE <<>>
      titleMatch == MatchHeading(body)
      title == IF titleMatch.found THEN StripRulePrefix(titleMatch.group)
               ELSE <<"g","e","n","e","r","a","t","e","d","-","r","u","l","e">>
  IN IF body = <<>> THEN [keep |-> FALSE, rule |-> <<>>]
     ELSE [keep |-> TRUE,
           rule |-> [filename |-> slug(title),
                     content |-> ContentOf(description, globs, alwaysApply, body),
                     title |-> title,
                     description |-> JsonStr(description),
                     globs |-> globs,
                     alwaysApply |-> alwaysApply,
                     body |-> body]]

RECURSIVE ParseChunks(_)
ParseChunks(chunks) ==
  IF chunks = <<>> THEN <<>>
  ELSE (IF parseChunk(Head(chunks)).keep THEN <<parseChunk(Head(chunks)).rule>> ELSE <<>>)
       \o ParseChunks(Tail(chunks))

\* parseRules(text)
parseRules(txt) == ParseChunks(ChunksOf(txt).chunks)

-----------------------------------------------------------------------------
(* gemini.generate, from the response text on *)

\* let useStructured = true
useStructured == TRUE

\* the try block: JSON.parse(text), then structuredRulesToOutput(parsed);
\* [threw, rules], threw the exception raised, "none" if none
tryBlock(t) ==
  LET parsed == JSONparse(t)
      out == structuredRulesToOutput(parsed.v)
  IN IF ~parsed.ok THEN [threw |-> "SyntaxError", rules |-> <<>>]
     ELSE IF ~out.ok THEN [threw |-> "TypeError", rules |-> <<>>]
     ELSE [threw |-> "none", rules |-> out.rules]

\* a plausible slip: only the failure of JSON.parse is caught
catchesSyntaxErrorOnly(exception) == exception = "SyntaxError"

\* catch { ... }: a catch clause without a binding catches every exception
catches(exception) == exception \in {"SyntaxError", "TypeError"}

\* a plausible slip: the last MAX_RULES rules are kept
hardCapKeepsLast(rs) ==
  IF Len(rs) > MAX_RULES THEN SubSeq(rs, Len(rs) - MAX_RULES + 1, Len(rs)) ELSE rs

\* a plausible slip: the cap lets MAX_RULES + 1 rules through
hardCapOffByOne(rs) ==
  IF Len(rs) > MAX_RULES + 1 THEN SubSeq(rs, 1, MAX_RULES + 1) ELSE rs

\* if (rules.length > MAX_RULES) rules = rules.slice(0, MAX_RULES)
hardCap(rs) ==
  IF Len(rs) > MAX_RULES THEN SubSeq(rs, 1, MAX_RULES) ELSE rs

\* if (useStructured) try { ... }
TryStructured ==
  /\ xpc = "try"
  /\ useStructured
  /\ LET r == tryBlock(text)
     IN IF r.threw = "none"
        THEN rules' = r.rules /\ mode' = "structured" /\ xpc' = "cap"
        ELSE /\ UNCHANGED <<rules, mode>>
             /\ xpc' = IF catches(r.threw) THEN "catch" ELSE "threw"
  /\ UNCHANGED <<text, produced, notExtract>>

\* catch { rules = parseRules(text) }
Fallback ==
  /\ xpc = "catch"
  /\ rules' = parseRules(text)
  /\ mode' = "text"
  /\ xpc' = "cap"
  /\ UNCHANGED <<text, produced, notExtract>>

\* the hard cap
HardCap ==
  /\ xpc = "cap"
  /\ produced' = rules
  /\ rules' = hardCap(rules)
  /\ xpc' = "done"
  /\ UNCHANGED <<text, mode, notExtract>>

NextExtract == TryStructured \/ Fallback \/ HardCap

-----------------------------------------------------------------------------
(* The response texts considered *)

\* an object with the members the schema names
RuleObject(title, description, globs, alwaysApply, body) ==
  JsonObj(<<[k |-> <<"t","i","t","l","e">>, v |-> JsonStr(title)],
            [k |-> <<"d","e","s","c","r","i","p","t","i","o","n">>, v |-> JsonStr(description)],
            [k |-> <<"g","l","o","b","s">>, v |-> JsonArr([i \in DOMAIN globs |-> JsonStr(globs[i])])],
            [k |-> <<"a","l","w","a","y","s","A","p","p","l","y">>, v |-> JsonBool(alwaysApply)],
            [k |-> <<"b","o","d","y">>, v |-> JsonStr(body)]>>)

\* the decimal digits of n < 100
Decimal(n) ==
  IF n < 10 THEN <<DigitChars[n + 1]>>
  ELSE <<DigitChars[(n \div 10) + 1], DigitChars[(n % 10) + 1]>>

\* the longest lists of rules built below: MAX_RULES and one more
MaxRepeat == 9

\* the i-th rule of a list, its title telling its place
NumberedObject(i) ==
  RuleObject(<<"R","u","l","e"," ">> \o Decimal(i), <<"K","e","e","p"," ","o","r","d","e","r">>, <<<<"s","r","c","/","*","*">>>>, FALSE, <<"B","o","d","y"," ">> \o Decimal(i))

NumberedBlock(i) ==
  ContentOf(<<"K","e","e","p"," ","o","r","d","e","r">>, <<"[","\"","s","r","c","/","*","*","\"","]">>, <<"f","a","l","s","e">>,
            <<"#"," ","R","u","l","e"," ">> \o Decimal(i) \o <<"\n","\n","B","o","d","y"," ">> \o Decimal(i))

\* elements of a response array: rules that conform to the schema, and values
\* that do not
ElementPool ==
  {RuleObject(<<"U","s","e"," ","Z","o","d">>, <<"V","a","l","i","d","a","t","e"," ","i","n","p","u","t">>, <<<<"s","r","c","/","*","*","/","*",".","t","s">>>>, FALSE, <<"V","a","l","i","d","a","t","e"," ","w","i","t","h"," ","Z","o","d",".">>),
   RuleObject(<<"N","o"," ","B","o","d","y">>, <<"H","a","s"," ","n","o"," ","b","o","d","y">>, <<<<"*",".","j","s">>>>, TRUE, <<>>),
   RuleObject(<<"!","!","!">>, <<"N","o"," ","l","e","t","t","e","r","s"," ","i","n"," ","t","i","t","l","e">>, <<<<"*",".","j","s">>>>, FALSE, <<"B","o","d","y",".">>),
   RuleObject(<<>>, <<"E","m","p","t","y"," ","t","i","t","l","e">>, <<<<"*",".","j","s">>>>, FALSE, <<"B","o","d","y",".">>),
   JsonObj(<<[k |-> <<"t","i","t","l","e">>, v |-> JsonStr(<<"o","n","l","y","-","t","i","t","l","e">>)]>>),
   JsonObj(<<[k |-> <<"d","e","s","c","r","i","p","t","i","o","n">>, v |-> JsonStr(<<"N","o"," ","t","i","t","l","e">>)],
             [k |-> <<"b","o","d","y">>, v |-> JsonStr(<<"B","o","d","y",".">>)]>>),
   JsonObj(<<[k |-> <<"t","i","t","l","e">>, v |-> JsonNum(<<"1">>)],
             [k |-> <<"b","o","d","y">>, v |-> JsonStr(<<"B","o","d","y",".">>)]>>),
   JsonObj(<<[k |-> <<"t","i","t","l","e">>, v |-> JsonStr(<<"W","r","o","n","g"," ","t","y","p","e","s">>)],
             [k |-> <<"d","e","s","c","r","i","p","t","i","o","n">>, v |-> JsonNum(<<"7">>)],
             [k |-> <<"g","l","o","b","s">>, v |-> JsonStr(<<"*",".","j","s">>)],
             [k |-> <<"a","l","w","a","y","s","A","p","p","l","y">>, v |-> JsonStr(<<"y","e","s">>)],
             [k |-> <<"b","o","d","y">>, v |-> JsonNull]>>),
   JsonNull}

\* the sequences of at most two members of a set
UpToTwo(S) == {<<>>} \cup {<<a>> : a \in S} \cup {<<a, b>> : a, b \in S}

\* responses that are JSON: arrays of pool elements, numbered lists, and values
\* that are no arrays
JsonTexts ==
  {JSONstringify(JsonArr(es)) : es \in UpToTwo(ElementPool)}
  \cup {JSONstringify(JsonArr([i \in 1..n |-> NumberedObject(i)])) : n \in 1..MaxRepeat}
  \cup {<<"1","2">>, <<"n","u","l","l">>, <<"t","r","u","e">>, <<"\"","#"," ","T","i","t","l","e","\"">>, <<" ","{","\"","t","i","t","l","e","\"",":"," ","\"","a","\"","}"," ">>}

\* s without its last character
DropLast(s) == SubSeq(s, 1, Len(s) - 1)

\* responses cut short
TruncatedTexts ==
  {DropLast(JSONstringify(JsonArr(<<e>>))) : e \in ElementPool}
  \cup {DropLast(JSONstringify(JsonArr([i \in 1..n |-> NumberedObject(i)]))) : n \in 1..2}

\* blocks of a free-text response
BlockPool ==
  {<<"-","-","-","\n","d","e","s","c","r","i","p","t","i","o","n",":"," ","V","a","l","i","d","a","t","e"," ","i","n","p","u","t","\n","g","l","o","b","s",":"," ","[","\"","s","r","c","/","*","*","/","*",".","t","s","\"","]","\n","a","l","w","a","y","s","A","p","p","l","y",":"," ","t","r","u","e","\n","-","-","-","\n","\n","#"," ","U","s","e"," ","Z","o","d","\n","\n","V","a","l","i","d","a","t","e"," ","w","i","t","h"," ","Z","o","d",".","\n">>,
   <<"-","-","-","\n","d","e","s","c","r","i","p","t","i","o","n",":"," ","N","o"," ","g","l","o","b","s","\n","a","l","w","a","y","s","A","p","p","l","y",":"," ","t","r","u","e","\n","-","-","-","\n","\n","#"," ","N","o"," ","G","l","o","b","s","\n","\n","B","o","d","y",".","\n">>,
   <<"-","-","-","\n","g","l","o","b","s",":"," ","[","\"","l","i","b","/","*","*","\"","]","\n","-","-","-","\n","#"," ","O","n","l","y"," ","G","l","o","b","s","\n","B","o","d","y",".","\n">>,
   <<"-","-","-","\n","d","e","s","c","r","i","p","t","i","o","n",":"," ","N","o"," ","b","o","d","y","\n","-","-","-","\n">>,
   <<"-","-","-","\n","d","e","s","c","r","i","p","t","i","o","n",":"," ","N","o"," ","l","e","t","t","e","r","s"," ","i","n"," ","t","i","t","l","e","\n","-","-","-","\n","#"," ","!","!","!","\n","B","o","d","y",".","\n">>,
   <<"-","-","-","\n","d","e","s","c","r","i","p","t","i","o","n",":"," ","B","a","r","e"," ","p","r","e","f","i","x","\n","-","-","-","\n","#"," ","R","u","l","e",":","\n","B","o","d","y",".","\n">>,
   <<"-","-","-","\n","d","e","s","c","r","i","p","t","i","o","n",":"," ","P","r","e","f","i","x","e","d","\n","-","-","-","\n","#"," ","R","u","l","e",":"," ","U","s","e"," ","F","o","o","\n","B","o","d","y",".","\n">>,
   <<"-","-","-","\n","d","e","s","c","r","i","p","t","i","o","n",":"," ","N","o"," ","h","e","a","d","i","n","g","\n","-","-","-","\n","B","o","d","y"," ","w","i","t","h","o","u","t"," ","h","e","a","d","i","n","g",".","\n">>,
   <<"-","-","-","\n","d","e","s","c","r","i","p","t","i","o","n",":","\n","g","l","o","b","s",":"," ","[","]","\n","a","l","w","a","y","s","A","p","p","l","y",":"," ","T","r","u","e","\n","-","-","-","\n","#"," ","O","d","d"," ","V","a","l","u","e","s","\n","B","o","d","y",".","\n">>,
   <<"*","*","D","e","s","c","r","i","p","t","i","o","n",":","*","*"," ","M","a","r","k","d","o","w","n"," ","r","u","l","e","\n","*","*","G","l","o","b","s",":","*","*"," ",Backtick,"[","\"","*",".","j","s","\"","]",Backtick,"\n","*","*","a","l","w","a","y","s","A","p","p","l","y",":","*","*"," ","t","r","u","e","\n","*","*","R","u","l","e",":","*","*","\n","#"," ","M","a","r","k","d","o","w","n","\n","B","o","d","y",".","\n">>,
   <<"#"," ","B","a","r","e"," ","H","e","a","d","i","n","g","\n","B","o","d","y",".","\n">>,
   <<"J","u","s","t"," ","p","r","o","s","e",","," ","n","o"," ","r","u","l","e",".","\n">>}

RECURSIVE JoinWith(_, _)
JoinWith(pieces, sep) ==
  IF pieces = <<>> THEN <<>>
  ELSE Head(pieces) \o (IF Len(pieces) > 1 THEN sep \o JoinWith(Tail(pieces), sep) ELSE <<>>)

\* blocks that start with front matter, for responses without the delimiter
FrontmatterBlocks ==
  {<<"-","-","-","\n","d","e","s","c","r","i","p","t","i","o","n",":"," ","F","i","r","s","t","\n","g","l","o","b","s",":"," ","[","\"","a","/","*","*","\"","]","\n","-","-","-","\n","#"," ","F","i","r","s","t","\n","B","o","d","y",".","\n">>,
   <<"-","-","-","\n","g","l","o","b","s",":"," ","[","\"","b","/","*","*","\"","]","\n","d","e","s","c","r","i","p","t","i","o","n",":"," ","S","e","c","o","n","d","\n","-","-","-","\n","#"," ","S","e","c","o","n","d","\n","B","o","d","y",".","\n">>,
   <<"-","-","-","\n","a","l","w","a","y","s","A","p","p","l","y",":"," ","t","r","u","e","\n","-","-","-","\n","#"," ","T","h","i","r","d","\n","B","o","d","y",".","\n">>}

\* responses that are free text: blocks between delimiters, numbered lists of
\* blocks, blocks that only a line break separates, and one block under a
\* heading of the response
FreeTexts ==
  {JoinWith(bs, <<"\n","=","=","=","R","U","L","E","=","=","=","\n","\n">>) : bs \in UpToTwo(BlockPool)}
  \cup {JoinWith([i \in 1..n |-> NumberedBlock(i)], <<"\n","=","=","=","R","U","L","E","=","=","=","\n","\n">>) : n \in 1..MaxRepeat}
  \cup {JoinWith(<<a, b>>, <<"\n">>) : a, b \in FrontmatterBlocks}
  \cup {<<"H","e","r","e"," ","a","r","e"," ","t","h","e"," ","r","u","l","e","s",":","\n","\n">> \o JoinWith(<<a, b>>, <<"\n">>) : a, b \in FrontmatterBlocks}
  \cup {<<"#"," ","G","e","n","e","r","a","t","e","d"," ","r","u","l","e","s","\n">> \o a : a \in FrontmatterBlocks}

\* the texts handed to the extraction steps. apiRequest rejects an empty text,
\* so generate itself never sees the empty one, which is among FreeTexts.
Texts == JsonTexts \cup TruncatedTexts \cup FreeTexts

InitExtract ==
  /\ text \in Texts
  /\ rules = <<>>
  /\ produced = <<>>
  /\ mode = "none"
  /\ xpc = "try"
  /\ BudgetIdle /\ PriorityIdle /\ RoundTripIdle /\ MainIdle /\ ApiIdle

SpecExtract == InitExtract /\ [][NextExtract]_vars

-----------------------------------------------------------------------------
(* A rule written by structuredRulesToOutput and read back by parseRules *)

\* structuredRulesToOutput([rtRule])
WriteRule ==
  /\ rtpc = "write"
  /\ rtOut' = structuredRulesToOutput(JsonArr(<<rtRule>>)).rules
  /\ rtpc' = "read"
  /\ UNCHANGED <<rtRule, rtBack, notRoundTrip>>

\* parseRules(content)
ReadBack ==
  /\ rtpc = "read"
  /\ rtBack' = parseRules(rtOut[1].content)
  /\ rtpc' = "done"
  /\ UNCHANGED <<rtRule, rtOut, notRoundTrip>>

NextRoundTrip == WriteRule \/ ReadBack

PoolTitles ==
  {<<"U","s","e"," ","Z","o","d">>, <<"A","P","I"," "," ","r","o","u","t","e","s"," ","(","v","2",")">>, <<"R","u","l","e",":"," ","U","s","e"," ","F","o","o">>, <<"!","!","!">>, <<>>,
   <<"K","e","e","p"," ","r","o","u","t","e"," ","h","a","n","d","l","e","r","s"," ","t","h","i","n"," ","a","n","d"," ","m","o","v","e"," ","l","o","g","i","c"," ","i","n","t","o"," ","s","e","r","v","i","c","e","s"," ","l","a","y","e","r">>,
   <<"V","a","l","i","d","a","t","e"," ","a","l","l"," ","r","e","q","u","e","s","t"," ","p","a","y","l","o","a","d","s"," ","a","t"," ","t","h","e"," ","A","P","I"," ","b","o","u","n","d","a","r","y"," ","w","i","t","h"," ","Z","o","d"," ","s","c","h","e","m","a","s">>}

PoolDescriptions == {<<"V","a","l","i","d","a","t","e"," ","i","n","p","u","t">>, <<"U","s","e"," ","g","l","o","b","s",":"," ","k","e","e","p"," ","[","t","h","e","m","]"," ","n","a","r","r","o","w">>, <<>>}

PoolGlobs == {<<<<"s","r","c","/","*","*","/","*",".","t","s">>>>, <<<<"a","/","*","*">>, <<"b","/","[","x","y","]","*">>>>, <<>>}

PoolBodies ==
  {<<"V","a","l","i","d","a","t","e"," ","w","i","t","h"," ","Z","o","d",".">>,
   <<"F","i","r","s","t"," ","p","a","r","a","g","r","a","p","h",".","\n","\n","#","#"," ","D","e","t","a","i","l","s","\n","\n","-"," ","o","n","e","\n","-"," ","t","w","o">>,
   <<"K","e","e","p"," ","s","e","c","t","i","o","n","s"," ","a","p","a","r","t",".","\n","\n","-","-","-","\n","\n","S","e","c","o","n","d"," ","s","e","c","t","i","o","n",".">>,
   <<"S","e","p","a","r","a","t","e"," ","r","u","l","e","s"," ","w","i","t","h"," ","=","=","=","R","U","L","E","=","=","="," ","l","i","n","e","s",".">>,
   <<>>}

\* rule objects that conform to the schema
RoundTripRules ==
  {RuleObject(t, d, g, a, b) :
     t \in PoolTitles, d \in PoolDescriptions, g \in PoolGlobs, a \in BOOLEAN, b \in PoolBodies}

InitRoundTrip ==
  /\ rtRule \in RoundTripRules
  /\ rtOut = <<>>
  /\ rtBack = <<>>
  /\ rtpc = "write"
  /\ BudgetIdle /\ PriorityIdle /\ ExtractIdle /\ MainIdle /\ ApiIdle

SpecRoundTrip == InitRoundTrip /\ [][NextRoundTrip]_vars

-----------------------------------------------------------------------------
(* Properties of the rule extractor *)

\* s without its white space
RECURSIVE NoSpace(_)
NoSpace(s) ==
  IF s = <<>> THEN <<>>
  ELSE (IF Head(s) \in WhiteSpace THEN <<>> ELSE <<Head(s)>>) \o NoSpace(Tail(s))

RuleFields == {"filename", "content", "title", "description", "globs", "alwaysApply", "body"}

\* C4: extraction never raises, whatever the text: it ends with a list of
\* rule records, which may be empty.
ExtractorTotality ==
  /\ xpc # "threw"
  /\ xpc = "done" => \A i \in DOMAIN rules : DOMAIN rules[i] = RuleFields

\* C4 witness: a response that is valid JSON but no array of rule objects was
\* handed to the text parser, and extraction ended with no rule.
ExtractorTotalityWitness ==
  /\ xpc = "done"
  /\ JSONparse(text).ok
  /\ tryBlock(text).threw = "TypeError"
  /\ mode = "text"
  /\ rules = <<>>

\* C5: the returned list has at most MAX_RULES records: the first MAX_RULES of
\* the parser's list in their order when that is longer, the parser's list
\* itself otherwise.
CapEnforcement ==
  xpc = "done" =>
    /\ Len(rules) <= MAX_RULES
    /\ Len(produced) > MAX_RULES => rules = SubSeq(produced, 1, MAX_RULES)
    /\ Len(produced) <= MAX_RULES => rules = produced

\* C5 witness: the text parser returned more than MAX_RULES records and the
\* first MAX_RULES of them were returned.
CapEnforcementWitness ==
  /\ xpc = "done"
  /\ mode = "text"
  /\ Len(produced) > MAX_RULES
  /\ Len(rules) = MAX_RULES
  /\ rules[1] = produced[1]

\* C6: a rule written in the persisted format and read back by parseRules
\* gives one record with the same description, globs, alwaysApply, title, body
\* (white space aside) and filename.
RoundTrip ==
  rtpc = "done" =>
    /\ Len(rtBack) = 1
    /\ NoSpace(rtBack[1].description.v) = NoSpace(rtOut[1].description.v)
    /\ NoSpace(rtBack[1].globs) = NoSpace(rtOut[1].globs)
    /\ rtBack[1].alwaysApply = rtOut[1].alwaysApply
    /\ NoSpace(rtBack[1].title) = NoSpace(rtOut[1].title)
    /\ NoSpace(rtBack[1].body) = NoSpace(<<"#"," ">> \o rtOut[1].title \o rtOut[1].body)
    /\ rtBack[1].filename = rtOut[1].filename

\* the chunks of txt that parseRules keeps, in order
RECURSIVE KeptOf(_)
KeptOf(chunks) ==
  IF chunks = <<>> THEN <<>>
  ELSE (IF parseChunk(Head(chunks)).keep THEN <<Head(chunks)>> ELSE <<>>) \o KeptOf(Tail(chunks))

KeptChunks(txt) == KeptOf(ChunksOf(txt).chunks)

\* the block names the field: as a front-matter key or as a bold markdown label
FieldPresent(chunk, key, labels) ==
  includes(chunk, key) \/ \E l \in labels : includes(chunk, l)

DefaultDescription == <<"G","e","n","e","r","a","t","e","d"," ","r","u","l","e">>
DefaultGlobs == <<"[","\"","*","*","/","*","\"","]">>
DefaultAlwaysApply == <<"f","a","l","s","e">>

\* C7: every record of parseRules is complete: a block without globs gets
\* ["**/*"], one without description gets 'Generated rule', one without
\* alwaysApply gets false; a field the block does have is not replaced by its
\* default.
DefaultFilling ==
  (xpc = "done" /\ mode = "text") =>
    \A i \in DOMAIN produced :
      LET chunk == KeptChunks(text)[i]
          rule == produced[i]
          hasDescription == FieldPresent(chunk, <<"d","e","s","c","r","i","p","t","i","o","n",":">>, {<<"*","*","D","e","s","c","r","i","p","t","i","o","n",":","*","*">>})
          hasGlobs == FieldPresent(chunk, <<"g","l","o","b","s",":">>, {<<"*","*","G","l","o","b","s",":","*","*">>, <<"*","*","G","l","o","b",":","*","*">>})
          hasAlways == FieldPresent(chunk, <<"a","l","w","a","y","s","A","p","p","l","y",":">>, {<<"*","*","a","l","w","a","y","s","A","p","p","l","y",":","*","*">>})
      IN /\ ~hasDescription => rule.description.v = DefaultDescription
         /\ ~hasGlobs => rule.globs = DefaultGlobs
         /\ ~hasAlways => rule.alwaysApply = DefaultAlwaysApply
         /\ hasDescription => rule.description.v # DefaultDescription
         /\ hasGlobs => rule.globs # DefaultGlobs
         /\ (hasAlways /\ ~includes(chunk, <<"a","l","w","a","y","s","A","p","p","l","y",":"," ","f","a","l","s","e">>)) => rule.alwaysApply # DefaultAlwaysApply

\* C9: no returned record has an empty body, whichever parser built it.
NoEmptyBody ==
  xpc = "done" => \A i \in DOMAIN rules : rules[i].body # <<>>

\* C10: every returned record has a title and a filename that are not empty.
TitleAndSlugNonEmpty ==
  xpc = "done" => \A i \in DOMAIN rules : rules[i].title # <<>> /\ rules[i].filename # <<>>

-----------------------------------------------------------------------------
(* The response against RULE_SCHEMA *)

\* value is a rule object of RULE_SCHEMA: the five required members, each of
\* its type
ConformsToItem(value) ==
  /\ value.t = "object"
  /\ GetProp(value, <<"t","i","t","l","e">>).t = "string"
  /\ GetProp(value, <<"d","e","s","c","r","i","p","t","i","o","n">>).t = "string"
  /\ GetProp(value, <<"g","l","o","b","s">>).t = "array"
  /\ \A i \in DOMAIN GetProp(value, <<"g","l","o","b","s">>).v : GetProp(value, <<"g","l","o","b","s">>).v[i].t = "string"
  /\ GetProp(value, <<"a","l","w","a","y","s","A","p","p","l","y">>).t = "boolean"
  /\ GetProp(value, <<"b","o","d","y">>).t = "string"

\* txt is JSON for an array of rule objects
ConformsToSchema(txt) ==
  LET parsed == JSONparse(txt)
  IN /\ parsed.ok
     /\ parsed.v.t = "array"
     /\ \A i \in DOMAIN parsed.v.v : ConformsToItem(parsed.v.v[i])

\* C11: a response that does not conform to the rule schema is never mapped
\* to records directly: its records come from parseRules on the same text.
SchemaFallthrough ==
  (xpc \in {"cap", "done"} /\ ~ConformsToSchema(text)) =>
    /\ mode = "text"
    /\ xpc = "done" => produced = parseRules(text)

-----------------------------------------------------------------------------
(* More properties of budgeter.select *)

\* C18: every config file among the candidates is in the result of select,
\* whatever the candidates, for maxFiles >= 1.
ConfigAlwaysIncluded ==
  (bpc = "done" /\ maxFiles >= 1) =>
    \A i \in DOMAIN files : files[i].isConfig => IsSelected(files[i])

\* C19: select leaves its argument as it was (order, length, records), every
\* invocation on the same candidates returns what the earlier ones returned,
\* and the result holds input candidates only, none of them twice.
SelectIsPure ==
  /\ [][files' = files]_vars
  /\ [](bpc = "done" =>
          /\ \A k \in DOMAIN returned : returned[k] = selected
          /\ \A i \in DOMAIN selected : \E j \in DOMAIN files : files[j] = selected[i]
          /\ \A i, j \in DOMAIN selected : selected[i] = selected[j] => i = j)

\* C19 witness: a second invocation returned, on candidates whose discovery
\* order is not the sorted order and of which one was passed over.
SelectIsPureWitness ==
  /\ bpc = "done"
  /\ Len(returned) = 1
  /\ sorted # files
  /\ SomeContinue
  /\ selected # <<>>

-----------------------------------------------------------------------------
(* The splitting strategies of parseRules *)

\* the blocks the strategies give when each later one is tried wherever the
\* earlier ones left at most one block
BlocksInOrder(txt) ==
  LET first == SplitOnDelimiter(txt)
      second == IF ManyFrontmatterMarks(txt) THEN SplitBeforeDescription(txt) ELSE first
  IN IF Len(first) > 1 THEN first
     ELSE IF Len(second) > 1 THEN second
     ELSE SplitBeforeAnyField(txt)

\* C16: parseRules works on the blocks of the first strategy that yields more
\* than one block: the delimiter; with more than two front-matter marks the
\* split before description:; and, wherever these left at most one block, the
\* split before any of description:, globs:, alwaysApply:.
SplitStrategyOrder ==
  (xpc = "done" /\ mode = "text") => produced = ParseChunks(BlocksInOrder(text))

-----------------------------------------------------------------------------
(* The filename slug *)

SlugChars == Range(LowerChars) \cup Range(DigitChars) \cup {"-"}

\* s is lower-case alphanumerics and single hyphens, at most SLUG_MAX
\* characters, with no hyphen at either end
WellFormedSlug(s) ==
  /\ Range(s) \subseteq SlugChars
  /\ \A i \in 1..(Len(s) - 1) : ~(s[i] = "-" /\ s[i + 1] = "-")
  /\ Len(s) <= SLUG_MAX
  /\ s # <<>> => (s[1] # "-" /\ s[Len(s)] # "-")

\* C17: the filename of a record is the slug of its title: lower-cased, every
\* run of other characters one hyphen, the hyphens at the ends trimmed, cut to
\* 50 characters; it is well formed, and the record parseRules reads back with
\* the same title has the same filename.
SlugWellFormed ==
  /\ rtpc \in {"read", "done"} => WellFormedSlug(rtOut[1].filename)
  /\ rtpc = "done" =>
       \A i \in DOMAIN rtBack :
         /\ WellFormedSlug(rtBack[i].filename)
         /\ rtBack[i].title = rtOut[1].title => rtBack[i].filename = rtOut[1].filename

-----------------------------------------------------------------------------
(* src/cli.js: parseArgs and main, with the catch of bin/rule-gen.js *)

\* A number is [nan, n]: parseInt gives NaN where the text starts with no digit
Num(n) == [nan |-> FALSE, n |-> n]
NaN == [nan |-> TRUE, n |-> 0]

DigitValue(c) == (CHOOSE i \in DOMAIN DigitChars : DigitChars[i] = c) - 1

\* the value of the digits of s from i on, after the value acc
RECURSIVE DigitsValue(_, _, _)
DigitsValue(s, i, acc) ==
  IF i <= Len(s) /\ s[i] \in Range(DigitChars)
  THEN DigitsValue(s, i + 1, 10 * acc + DigitValue(s[i]))
  ELSE acc

\* parseInt(value, 10): white space, a sign, then the digits there are
parseInt(value) ==
  IF value.t # "string" THEN NaN
  ELSE LET s == value.v
           i == SkipSpace(s, 1)
           signed == i <= Len(s) /\ s[i] \in {"+", "-"}
           j == IF signed THEN i + 1 ELSE i
       IN IF j <= Len(s) /\ s[j] \in Range(DigitChars)
          THEN Num((IF signed /\ s[i] = "-" THEN -1 ELSE 1) * DigitsValue(s, j, 0))
          ELSE NaN

\* argv[i], undefined past the end
ArgAt(args, i) == IF i \in DOMAIN args THEN JsonStr(args[i]) ELSE Undefined

\* const opts = { ... }
DefaultOpts(env) ==
  [path |-> JsonStr(<<".">>), format |-> JsonStr(<<"c","u","r","s","o","r">>),
   model |-> JsonStr(<<"g","e","m","i","n","i","-","2",".","5","-","f","l","a","s","h","-","l","i","t","e">>), dryRun |-> FALSE, verbose |-> FALSE,
   maxFiles |-> Num(50), apiKey |-> JsonStr(env)]

\* the loop of parseArgs from argv[i] on: [exit, opts]; exit is the code of
\* process.exit, -1 where parseArgs returns
RECURSIVE parseArgsFrom(_, _, _)
parseArgsFrom(args, i, o) ==
  IF i > Len(args) THEN [exit |-> -1, opts |-> o]
  ELSE LET arg == args[i]
       IN CASE arg \in {<<"-","h">>, <<"-","-","h","e","l","p">>} -> [exit |-> 0, opts |-> o]
            [] arg \in {<<"-","v">>, <<"-","-","v","e","r","s","i","o","n">>} -> [exit |-> 0, opts |-> o]
            [] arg = <<"-","-","f","o","r","m","a","t">> ->
                 parseArgsFrom(args, i + 2, [o EXCEPT !.format = ArgAt(args, i + 1)])
            [] arg = <<"-","-","m","o","d","e","l">> ->
                 parseArgsFrom(args, i + 2, [o EXCEPT !.model = ArgAt(args, i + 1)])
            [] arg = <<"-","-","d","r","y","-","r","u","n">> -> parseArgsFrom(args, i + 1, [o EXCEPT !.dryRun = TRUE])
            [] arg = <<"-","-","v","e","r","b","o","s","e">> -> parseArgsFrom(args, i + 1, [o EXCEPT !.verbose = TRUE])
            [] arg = <<"-","-","m","a","x","-","f","i","l","e","s">> ->
                 parseArgsFrom(args, i + 2, [o EXCEPT !.maxFiles = parseInt(ArgAt(args, i + 1))])
            [] arg = <<"-","-","a","p","i","-","k","e","y">> ->
                 parseArgsFrom(args, i + 2, [o EXCEPT !.apiKey = ArgAt(args, i + 1)])
            [] OTHER ->
                 parseArgsFrom(args, i + 1,
                               IF arg # <<>> /\ arg[1] = "-" THEN o ELSE [o EXCEPT !.path = JsonStr(arg)])

parseArgs(args, env) == parseArgsFrom(args, 1, DefaultOpts(env))

\* !opts.apiKey
NoApiKey(o) == o.apiKey.t = "undefined" \/ o.apiKey.v = <<>>

\* the loop of budgeter.select from sorted[i] on
RECURSIVE selectLoop(_, _, _, _, _)
selectLoop(sortedFiles, i, sel, budget, maxF) ==
  IF i > Len(sortedFiles) THEN sel
  ELSE LET did == visit(sortedFiles[i], sel, budget, maxF)
       IN CASE did = "break" -> sel
            [] did = "continue" -> selectLoop(sortedFiles, i + 1, sel, budget, maxF)
            [] OTHER -> selectLoop(sortedFiles, i + 1, Append(sel, sortedFiles[i]),
                                   budget - sortedFiles[i].tokens, maxF)

\* budgeter.select(files, maxFiles). selected.length >= NaN is false at every
\* turn, as it is for a maxFiles above the number of files.
select(fs, maxF) ==
  selectLoop(SortFiles(fs), 1, <<>>, BUDGET, IF maxF.nan THEN Len(fs) + 1 ELSE maxF.n)

\* what gemini.generate returns for the response text txt
extract(txt) ==
  LET r == tryBlock(txt)
  IN hardCap(IF r.threw = "none" THEN r.rules ELSE parseRules(txt))

\* what the walker finds: nothing, one config file, source files
ScanResults ==
  {<<>>,
   <<candidate(<<"p","a","c","k","a","g","e",".","j","s","o","n">>, 2000, 500)>>,
   <<candidate(<<"s","r","c","/","l","i","b","/","s","m","a","l","l",".","j","s">>, 40, 10), candidate(<<"s","r","c","/","r","o","u","t","e","s","/","u","s","e","r",".","j","s">>, 500, 125),
     candidate(<<"s","r","c","/","l","i","b","/","b","i","g",".","j","s">>, 4000, 1000)>>}

\* responses of the model: no rule, rules, prose, more rules than the cap
ResponseTexts ==
  {<<"[","]">>,
   JSONstringify(JsonArr(<<NumberedObject(1)>>)),
   JSONstringify(JsonArr([i \in 1..(MAX_RULES + 1) |-> NumberedObject(i)])),
   <<"J","u","s","t"," ","p","r","o","s","e",","," ","n","o"," ","r","u","l","e",".","\n">>,
   NumberedBlock(1)}

GenerateResults == {extract(t) : t \in ResponseTexts}

Called(fn, settled) == [fn |-> fn, settled |-> settled]

\* process.exit(code) after console.error of a message of that kind
ExitWith(kind, code) ==
  /\ stderr' = (IF kind = "" THEN stderr ELSE Append(stderr, kind))
  /\ exitCode' = code
  /\ mpc' = "exited"

\* const opts = parseArgs(argv)
ParseArgs ==
  /\ mpc = "start"
  /\ LET r == parseArgs(argv, envKey)
     IN /\ opts' = r.opts
        /\ IF r.exit # -1 THEN ExitWith("", r.exit)
           ELSE mpc' = "key" /\ UNCHANGED <<stderr, exitCode>>
  /\ UNCHANGED <<argv, envKey, mfiles, mselected, mrules, mcalls, notMain>>

\* if (!opts.apiKey) { ...; process.exit(1) }
CheckApiKey ==
  /\ mpc = "key"
  /\ IF NoApiKey(opts) THEN ExitWith("No Gemini API key found", 1)
     ELSE mpc' = "scan" /\ UNCHANGED <<stderr, exitCode>>
  /\ UNCHANGED <<argv, envKey, opts, mfiles, mselected, mrules, mcalls, notMain>>

\* const files = await scanner.scan(projectPath): scan catches every error of
\* the file system and resolves with what it found
Scan ==
  /\ mpc = "scan"
  /\ mfiles' \in ScanResults
  /\ mcalls' = Append(mcalls, Called("scan", "resolved"))
  /\ mpc' = "scanned"
  /\ UNCHANGED <<argv, envKey, opts, mselected, mrules, stderr, exitCode, notMain>>

\* a plausible slip: the run goes on without candidates
CheckFilesGoesOn ==
  /\ mpc = "scanned"
  /\ mpc' = "select"
  /\ UNCHANGED <<argv, envKey, opts, mfiles, mselected, mrules, mcalls, stderr, exitCode, notMain>>

\* if (files.length === 0) { ...; process.exit(1) }
CheckFiles ==
  /\ mpc = "scanned"
  /\ IF Len(mfiles) = 0 THEN ExitWith("No source files found", 1)
     ELSE mpc' = "select" /\ UNCHANGED <<stderr, exitCode>>
  /\ UNCHANGED <<argv, envKey, opts, mfiles, mselected, mrules, mcalls, notMain>>

\* const selected = budgeter.select(files, opts.maxFiles)
Select ==
  /\ mpc = "select"
  /\ mselected' = select(mfiles, opts.maxFiles)
  /\ mcalls' = Append(mcalls, Called("select", "returned"))
  /\ mpc' = "generate"
  /\ UNCHANGED <<argv, envKey, opts, mfiles, mrules, stderr, exitCode, notMain>>

\* const rules = await gemini.generate(...): the promise is fulfilled
GenerateResolves ==
  /\ mpc = "generate"
  /\ mrules' \in GenerateResults
  /\ mcalls' = Append(mcalls, Called("generate", "resolved"))
  /\ mpc' = "generated"
  /\ UNCHANGED <<argv, envKey, opts, mfiles, mselected, stderr, exitCode, notMain>>

\* await gemini.generate(...): apiRequest rejected; main has no try, so its
\* own promise is rejected
GenerateRejects ==
  /\ mpc = "generate"
  /\ mcalls' = Append(mcalls, Called("generate", "rejected"))
  /\ mpc' = "rejected"
  /\ UNCHANGED <<argv, envKey, opts, mfiles, mselected, mrules, stderr, exitCode, notMain>>

\* if (rules.length === 0) { ...; process.exit(1) }
CheckRules ==
  /\ mpc = "generated"
  /\ IF Len(mrules) = 0 THEN ExitWith("Gemini did not generate any rules", 1)
     ELSE mpc' = "write" /\ UNCHANGED <<stderr, exitCode>>
  /\ UNCHANGED <<argv, envKey, opts, mfiles, mselected, mrules, mcalls, notMain>>

\* if (opts.dryRun) { print the rules }
DryRun ==
  /\ mpc = "write"
  /\ opts.dryRun
  /\ mpc' = "done"
  /\ UNCHANGED <<argv, envKey, opts, mfiles, mselected, mrules, mcalls, stderr, exitCode, notMain>>

\* a plausible slip: the rules are written whatever opts.dryRun is
WriteIgnoresDryRun ==
  /\ mpc = "write"
  /\ \E settled \in {"resolved", "rejected"} :
       /\ mcalls' = Append(mcalls, Called("write", settled))
       /\ mpc' = (IF settled = "resolved" THEN "done" ELSE "rejected")
  /\ UNCHANGED <<argv, envKey, opts, mfiles, mselected, mrules, stderr, exitCode, notMain>>

\* else { const written = await writer.write(rules, projectPath, opts.format) }
Write ==
  /\ mpc = "write"
  /\ ~opts.dryRun
  /\ \E settled \in {"resolved", "rejected"} :
       /\ mcalls' = Append(mcalls, Called("write", settled))
       /\ mpc' = (IF settled = "resolved" THEN "done" ELSE "rejected")
  /\ UNCHANGED <<argv, envKey, opts, mfiles, mselected, mrules, stderr, exitCode, notMain>>

\* console.log('\nDone!'); main returns and the process ends
Done ==
  /\ mpc = "done"
  /\ ExitWith("", 0)
  /\ UNCHANGED <<argv, envKey, opts, mfiles, mselected, mrules, mcalls, notMain>>

\* main(...).catch(err => { console.error(err.message); process.exit(1) })
CatchInBin ==
  /\ mpc = "rejected"
  /\ ExitWith("err.message", 1)
  /\ UNCHANGED <<argv, envKey, opts, mfiles, mselected, mrules, mcalls, notMain>>

NextMain ==
  \/ ParseArgs \/ CheckApiKey \/ Scan \/ CheckFiles \/ Select \/ GenerateResolves
  \/ GenerateRejects \/ CheckRules \/ DryRun \/ Write \/ Done \/ CatchInBin

\* the longest command lines considered
MaxArgs == 3

ArgPool ==
  {<<"-","-","d","r","y","-","r","u","n">>, <<"-","-","v","e","r","b","o","s","e">>, <<"-","-","m","a","x","-","f","i","l","e","s">>, <<"1">>, <<"-","-","a","p","i","-","k","e","y">>, <<"K","E","Y">>, <<"-","h">>, <<"p","r","o","j">>}

CommandLines == UNION {[1..n -> ArgPool] : n \in 0..MaxArgs}

InitMain ==
  /\ argv \in CommandLines
  /\ envKey \in {<<>>, <<"E","N","V","K","E","Y">>}
  /\ opts = <<>>
  /\ mfiles = <<>>
  /\ mselected = <<>>
  /\ mrules = <<>>
  /\ mcalls = <<>>
  /\ stderr = <<>>
  /\ exitCode = -1
  /\ mpc = "start"
  /\ BudgetIdle /\ PriorityIdle /\ ExtractIdle /\ RoundTripIdle /\ ApiIdle

SpecMain == InitMain /\ [][NextMain]_vars

-----------------------------------------------------------------------------
(* Properties of the run of the command line *)

CalledFn(fn) == \E i \in DOMAIN mcalls : mcalls[i].fn = fn

\* scan has resolved with no candidate
NoCandidates == CalledFn("scan") /\ mfiles = <<>>

\* generate has resolved with no rule
NoRules == (\E i \in DOMAIN mcalls : mcalls[i] = Called("generate", "resolved")) /\ mrules = <<>>

\* C12: a run whose scan finds no candidate, and a run whose generate yields
\* no rule, goes from the test of the result straight to exit code 1: without
\* candidates generate is never called, and in both runs write is never called.
ExitsOnNothing ==
  /\ NoCandidates =>
       /\ mpc \in {"scanned", "exited"}
       /\ mpc = "exited" => exitCode = 1
       /\ ~CalledFn("generate") /\ ~CalledFn("write")
  /\ NoRules =>
       /\ mpc \in {"generated", "exited"}
       /\ mpc = "exited" => exitCode = 1
       /\ ~CalledFn("write")

\* C12 witness: generate resolved with no rule, without --dry-run, and the
\* run ended with exit code 1 and the message of that case.
ExitsOnNothingWitness ==
  /\ NoRules
  /\ ~opts.dryRun
  /\ mpc = "exited"
  /\ exitCode = 1
  /\ stderr = <<"Gemini did not generate any rules">>

ValueOptions == {<<"-","-","f","o","r","m","a","t">>, <<"-","-","m","o","d","e","l">>, <<"-","-","m","a","x","-","f","i","l","e","s">>, <<"-","-","a","p","i","-","k","e","y">>}

\* the positions of args that hold an argument of its own, not the value of
\* the value option before it
RECURSIVE OwnPositions(_, _)
OwnPositions(args, i) ==
  IF i > Len(args) THEN {}
  ELSE {i} \cup OwnPositions(args, IF args[i] \in ValueOptions THEN i + 2 ELSE i + 1)

\* --dry-run is given as an option
DryRunGiven == \E i \in OwnPositions(argv, 1) : argv[i] = <<"-","-","d","r","y","-","r","u","n">>

-----------------------------------------------------------------------------
(* src/gemini.js: apiRequest within gemini.generate *)

\* value[0] of a parsed value
FirstOf(value) ==
  CASE value.t = "array" -> (IF value.v = <<>> THEN Undefined ELSE value.v[1])
    [] value.t = "string" -> (IF value.v = <<>> THEN Undefined ELSE JsonStr(<<value.v[1]>>))
    [] OTHER -> Undefined

Nullish(value) == value.t \in {"null", "undefined"}

\* value?.[0]
OptFirst(value) == IF Nullish(value) THEN Undefined ELSE FirstOf(value)

\* value?.key
OptProp(value, key) == IF Nullish(value) THEN Undefined ELSE GetProp(value, key)

\* the conversion of a value to a boolean
Truthy(value) ==
  CASE value.t \in {"null", "undefined"} -> FALSE
    [] value.t = "boolean" -> value.v = <<"t","r","u","e">>
    [] value.t = "string" -> value.v # <<>>
    [] value.t = "number" -> Range(value.v) \cap {"1", "2", "3", "4", "5", "6", "7", "8", "9"} # {}
    [] OTHER -> TRUE

Fulfilled(value) == [state |-> "fulfilled", value |-> value]
Rejected(message) == [state |-> "rejected", value |-> message]
Pending == [state |-> "pending", value |-> <<>>]

\* resolve and reject of a promise: the first call settles it, later calls
\* do nothing
Settle(p, settled) == IF p.state = "pending" THEN settled ELSE p

TimeoutMessage == <<"G","e","m","i","n","i"," ","A","P","I"," ","r","e","q","u","e","s","t"," ","t","i","m","e","d"," ","o","u","t","."," ","T","r","y"," ","-","-","m","a","x","-","f","i","l","e","s"," ","t","o"," ","r","e","d","u","c","e"," ","i","n","p","u","t"," ","s","i","z","e",".">>

\* the handler of res.on('end'): how it settles the promise for the body d
onEnd(d) ==
  LET parsed == JSONparse(d)
      json == parsed.v
      error == GetProp(json, <<"e","r","r","o","r">>)
      message == ToStr(GetProp(error, <<"m","e","s","s","a","g","e">>))
      txt == OptProp(OptFirst(OptProp(OptProp(OptFirst(OptProp(json, <<"c","a","n","d","i","d","a","t","e","s">>)),
                                               <<"c","o","n","t","e","n","t">>), <<"p","a","r","t","s">>)), <<"t","e","x","t">>)
      failed == Rejected(<<"F","a","i","l","e","d"," ","t","o"," ","p","a","r","s","e"," ","G","e","m","i","n","i"," ","r","e","s","p","o","n","s","e",":"," ">>)
  IN IF ~parsed.ok \/ ~HasProps(json) THEN failed
     ELSE IF Truthy(error)
          THEN (IF message.ok THEN Rejected(<<"G","e","m","i","n","i"," ","A","P","I"," ","e","r","r","o","r",":"," ">> \o message.s) ELSE failed)
     ELSE IF ~Truthy(txt) THEN Rejected(<<"G","e","m","i","n","i"," ","r","e","t","u","r","n","e","d"," ","a","n"," ","e","m","p","t","y"," ","r","e","s","p","o","n","s","e">>)
     ELSE Fulfilled(txt)

\* err.message of the errors of the connection
TransportMessages ==
  {<<"g","e","t","a","d","d","r","i","n","f","o"," ","E","N","O","T","F","O","U","N","D"," ","g","e","n","e","r","a","t","i","v","e","l","a","n","g","u","a","g","e",".","g","o","o","g","l","e","a","p","i","s",".","c","o","m">>,
   <<"c","o","n","n","e","c","t"," ","E","C","O","N","N","R","E","F","U","S","E","D"," ","1","4","2",".","2","5","0",".","0",".","1",":","4","4","3">>,
   <<"r","e","a","d"," ","E","C","O","N","N","R","E","S","E","T">>}

\* apiRequest(...): request(options, ...), req.on(...), req.write, req.end
CallApi ==
  /\ apc = "call"
  /\ requests' = requests + 1
  /\ promise' = Pending
  /\ reqState' = "open"
  /\ apc' = "await"
  /\ UNCHANGED <<incoming, data, errorPending, outcome, surfaced, notApi>>

\* res.on('data', chunk => data += chunk)
OnData ==
  /\ reqState = "open"
  /\ incoming # <<>>
  /\ data' = data \o Head(incoming)
  /\ incoming' = Tail(incoming)
  /\ UNCHANGED <<requests, promise, reqState, errorPending, outcome, surfaced, apc, notApi>>

\* res.on('end', ...)
OnEnd ==
  /\ reqState = "open"
  /\ incoming = <<>>
  /\ promise' = Settle(promise, onEnd(data))
  /\ reqState' = "ended"
  /\ UNCHANGED <<incoming, data, requests, errorPending, outcome, surfaced, apc, notApi>>

\* req.on('timeout', ...): req.destroy(), after which the request may emit
\* 'error' (socket hang up), then reject with the timeout message
OnTimeout ==
  /\ reqState = "open"
  /\ reqState' = "timedout"
  /\ errorPending' \in BOOLEAN
  /\ promise' = Settle(promise, Rejected(TimeoutMessage))
  /\ UNCHANGED <<incoming, data, requests, outcome, surfaced, apc, notApi>>

\* req.on('error', reject): the connection failed
OnError ==
  /\ reqState = "open"
  /\ \E message \in TransportMessages : promise' = Settle(promise, Rejected(message))
  /\ reqState' = "failed"
  /\ UNCHANGED <<incoming, data, requests, errorPending, outcome, surfaced, apc, notApi>>

\* req.on('error', reject): the 'error' that follows req.destroy()
OnErrorAfterDestroy ==
  /\ errorPending
  /\ errorPending' = FALSE
  /\ promise' = Settle(promise, Rejected(<<"s","o","c","k","e","t"," ","h","a","n","g"," ","u","p">>))
  /\ UNCHANGED <<incoming, data, requests, reqState, outcome, surfaced, apc, notApi>>

\* a plausible slip: a failed request is issued again
ResumeRetries ==
  /\ apc = "await"
  /\ promise.state # "pending"
  /\ IF promise.state = "fulfilled"
     THEN outcome' = "returned" /\ apc' = "done" /\ UNCHANGED <<reqState, errorPending>>
     ELSE IF requests < 2
          THEN apc' = "call" /\ reqState' = "none" /\ errorPending' = FALSE /\ UNCHANGED outcome
          ELSE outcome' = "rejected" /\ apc' = "thrown" /\ UNCHANGED <<reqState, errorPending>>
  /\ UNCHANGED <<incoming, data, requests, promise, surfaced, notApi>>

\* const { text, usage } = await apiRequest(...): generate goes on to extract
\* and return the rules, or is rejected with the error of apiRequest
Resume ==
  /\ apc = "await"
  /\ promise.state # "pending"
  /\ IF promise.state = "fulfilled"
     THEN outcome' = "returned" /\ apc' = "done" /\ UNCHANGED <<reqState, errorPending>>
     ELSE outcome' = "rejected" /\ apc' = "thrown" /\ UNCHANGED <<reqState, errorPending>>
  /\ UNCHANGED <<incoming, data, requests, promise, surfaced, notApi>>

\* main(...).catch(err => { console.error(err.message); process.exit(1) })
SurfaceError ==
  /\ apc = "thrown"
  /\ surfaced' = promise.value
  /\ apc' = "exit"
  /\ UNCHANGED <<incoming, data, requests, promise, reqState, errorPending, outcome, notApi>>

NextApi ==
  \/ CallApi \/ OnData \/ OnEnd \/ OnTimeout \/ OnError \/ OnErrorAfterDestroy
  \/ Resume \/ SurfaceError

\* a response body with the text txt
BodyWithText(txt) ==
  JSONstringify(JsonObj(<<
    [k |-> <<"c","a","n","d","i","d","a","t","e","s">>,
     v |-> JsonArr(<<JsonObj(<<[k |-> <<"c","o","n","t","e","n","t">>,
                               v |-> JsonObj(<<[k |-> <<"p","a","r","t","s">>,
                                               v |-> JsonArr(<<JsonObj(<<[k |-> <<"t","e","x","t">>, v |-> JsonStr(txt)]>>)>>)]>>)]>>)>>)],
    [k |-> <<"u","s","a","g","e","M","e","t","a","d","a","t","a">>, v |-> JsonObj(<<[k |-> <<"p","r","o","m","p","t","T","o","k","e","n","C","o","u","n","t">>, v |-> JsonNum(<<"1","2">>)]>>)]>>))

\* the bodies of the responses considered
ResponseBodies ==
  {BodyWithText(<<"[","]">>),
   BodyWithText(<<"[","{","\"","t","i","t","l","e","\"",":","\"","U","s","e"," ","Z","o","d","\"",",","\"","b","o","d","y","\"",":","\"","V","a","l","i","d","a","t","e",".","\"","}","]">>),
   BodyWithText(<<>>),
   <<"{","\"","c","a","n","d","i","d","a","t","e","s","\"",":","[","]","}">>,
   <<"{","\"","e","r","r","o","r","\"",":","{","\"","c","o","d","e","\"",":","4","0","0",",","\"","m","e","s","s","a","g","e","\"",":","\"","A","P","I"," ","k","e","y"," ","n","o","t"," ","v","a","l","i","d","\"","}","}">>,
   <<"{","\"","e","r","r","o","r","\"",":","{","\"","c","o","d","e","\"",":","5","0","3","}","}">>,
   <<"<","h","t","m","l",">","5","0","2"," ","B","a","d"," ","G","a","t","e","w","a","y","<","/","h","t","m","l",">">>,
   <<"n","u","l","l">>,
   <<>>}

\* the chunks of a body are cut at multiples of ChunkSize
ChunkSize == 24

\* a body arrives whole or in two chunks
Chunkings(body) ==
  {<<body>>} \cup
  {<<SubSeq(body, 1, k), SubSeq(body, k + 1, Len(body))>> :
     k \in {n \in 1..(Len(body) - 1) : n % ChunkSize = 0}}

InitApi ==
  /\ incoming \in UNION {Chunkings(body) : body \in ResponseBodies}
  /\ data = <<>>
  /\ requests = 0
  /\ promise = <<>>
  /\ reqState = "none"
  /\ errorPending = FALSE
  /\ outcome = "none"
  /\ surfaced = <<>>
  /\ apc = "call"
  /\ BudgetIdle /\ PriorityIdle /\ ExtractIdle /\ RoundTripIdle /\ MainIdle

SpecApi == InitApi /\ [][NextApi]_vars

-----------------------------------------------------------------------------
(* Properties of the model call *)

\* C14: an invocation of generate issues at most one request; when the
\* request times out, fails in transport, or the response is an API error,
\* empty or unreadable, generate is rejected, returns no rules, and no second
\* request follows.
OneRequest ==
  /\ requests <= 1
  /\ (apc \in {"done", "thrown", "exit"} /\ promise.state = "rejected") =>
       /\ outcome = "rejected"
       /\ requests = 1
  /\ outcome = "returned" => (promise.state = "fulfilled" /\ reqState = "ended")

\* C14 witness: the request timed out before the whole body had arrived and
\* generate was rejected after that one request.
OneRequestWitness ==
  /\ reqState = "timedout"
  /\ incoming # <<>>
  /\ data # <<>>
  /\ outcome = "rejected"
  /\ requests = 1
  /\ apc = "exit"

\* the message suggests sending fewer files
HasSuggestion(message) == includes(message, <<"-","-","m","a","x","-","f","i","l","e","s">>) \/ includes(message, <<"r","e","d","u","c","e">>)

\* C15: a timeout and a transport error both reach the caller, with the
\* suggestion to reduce the number of files; after a timeout the message that
\* reaches it is the timeout message, also when the 'error' of the destroyed
\* request has followed.
FailureSurfaced ==
  /\ (apc \in {"thrown", "exit"} /\ reqState = "timedout") => promise = Rejected(TimeoutMessage)
  /\ (apc = "exit" /\ reqState \in {"timedout", "failed"}) =>
       /\ surfaced = promise.value
       /\ surfaced # <<>>
       /\ HasSuggestion(surfaced)

====
